---- MODULE Spec2Model ----
(***************************************************************************)
(* A model of the nfl-fantasy repository: the typed pipeline (extractor,   *)
(* CSV storage, analytics), the browser scraper with the owners-data       *)
(* script, and the string-keyed script pipeline (final-dataset builder and *)
(* the temporal-dynamics analysis).                                        *)
(*                                                                         *)
(* Text is modelled as a sequence of one-character strings, so that the    *)
(* string functions of the code (regular expressions, split, join, strip)  *)
(* are computed character by character.  Floating-point scores are         *)
(* modelled in tenths of a point, as integers.                             *)
(***************************************************************************)
EXTENDS Integers, Sequences, FiniteSets, TLC

\* ------------------------------------------------------------------ bounds

\* Longest list handed to a save operation / built by an extraction.
MaxLen == 2

\* ------------------------------------------------------------- text helpers

Digits == {"0", "1", "2", "3", "4", "5", "6", "7", "8", "9"}
UpperCase == {"A", "B", "N", "T", "U", "X"}
LowerCase == {"a", "b", "e", "k", "l", "m", "n", "o", "r", "s", "t", "u", "w", "x"}
WhiteSpace == {" "}

\* str.lower() on the characters of the model's alphabet
Lower(c) ==
    CASE c = "A" -> "a" [] c = "B" -> "b" [] c = "N" -> "n"
      [] c = "T" -> "t" [] c = "U" -> "u" [] c = "X" -> "x"
      [] OTHER -> c

LowerText(s) == [i \in 1..Len(s) |-> Lower(s[i])]

IsAlnum(c) == c \in Digits \cup UpperCase \cup LowerCase

IsSpace(c) == c \in WhiteSpace

RECURSIVE LStrip(_)
LStrip(s) == IF s # <<>> /\ IsSpace(Head(s)) THEN LStrip(Tail(s)) ELSE s

RECURSIVE RStrip(_)
RStrip(s) ==
    IF s # <<>> /\ IsSpace(s[Len(s)]) THEN RStrip(SubSeq(s, 1, Len(s) - 1)) ELSE s

\* str.strip()
Strip(s) == RStrip(LStrip(s))

\* str.split() without arguments: the maximal runs of non-whitespace
RECURSIVE SplitWords(_, _, _)
SplitWords(s, cur, acc) ==
    IF s = <<>> THEN (IF cur = <<>> THEN acc ELSE Append(acc, cur))
    ELSE IF IsSpace(Head(s))
         THEN SplitWords(Tail(s), <<>>, IF cur = <<>> THEN acc ELSE Append(acc, cur))
         ELSE SplitWords(Tail(s), Append(cur, Head(s)), acc)

\* sep.join(words)
RECURSIVE Join(_, _)
Join(words, sep) ==
    IF words = <<>> THEN <<>>
    ELSE IF Len(words) = 1 THEN words[1]
    ELSE words[1] \o sep \o Join(Tail(words), sep)

\* str.replace(old, new): the non-overlapping occurrences, left to right
RECURSIVE Replace(_, _, _)
Replace(s, old, new) ==
    IF Len(s) < Len(old) THEN s
    ELSE IF SubSeq(s, 1, Len(old)) = old
         THEN new \o Replace(SubSeq(s, Len(old) + 1, Len(s)), old, new)
         ELSE <<Head(s)>> \o Replace(Tail(s), old, new)

\* ----------------------------------------------------- extractor: owner ids

\* re.search(r'\(([^)]+)\)', team_name): the leftmost "(" that is followed by at
\* least one character other than ")" and then a ")"; <<>> when there is none.
ParenMatch(s) ==
    LET close(i) == {j \in (i + 1)..Len(s) : s[j] = ")"}
        first(i) == CHOOSE j \in close(i) : \A k \in close(i) : j <= k
        starts == {i \in 1..Len(s) : s[i] = "(" /\ close(i) # {} /\ first(i) > i + 1}
    IN  IF starts = {} THEN <<>>
        ELSE LET i == CHOOSE x \in starts : \A y \in starts : x <= y
             IN  <<SubSeq(s, i + 1, first(i) - 1)>>

\* re.search(r"(.+)'s\s+", team_name): greedy, so the group runs up to the last
\* "'s" that is followed by whitespace and preceded by at least one character.
PossMatch(s) ==
    LET ends == {k \in 2..(Len(s) - 2) :
                    s[k] = "'" /\ s[k + 1] = "s" /\ IsSpace(s[k + 2])}
    IN  IF ends = {} THEN <<>>
        ELSE LET k == CHOOSE x \in ends : \A y \in ends : x >= y
             IN  <<SubSeq(s, 1, k - 1)>>

\* re.search(r'(.+)\s*-\s*(.+)', team_name): greedy, so the first group runs up
\* to the last "-" that has a character on both sides; the second group is what
\* follows the whitespace after it (the last whitespace character when nothing
\* else follows).
DashMatch(s) ==
    LET dashes == {k \in 2..(Len(s) - 1) : s[k] = "-"}
    IN  IF dashes = {} THEN <<>>
        ELSE LET k == CHOOSE x \in dashes : \A y \in dashes : x >= y
                 rest == SubSeq(s, k + 1, Len(s))
                 part2 == IF LStrip(rest) = <<>> THEN <<rest[Len(rest)]>> ELSE LStrip(rest)
             IN  <<SubSeq(s, 1, k - 1), part2>>

\* FantasyDataExtractor._extract_owner_name_from_team
ExtractOwnerNameFromTeam(team_name) ==
    IF ParenMatch(team_name) # <<>> THEN Strip(ParenMatch(team_name)[1])
    ELSE IF PossMatch(team_name) # <<>> THEN Strip(PossMatch(team_name)[1])
    ELSE IF DashMatch(team_name) # <<>>
         THEN LET part1 == DashMatch(team_name)[1]
                  part2 == DashMatch(team_name)[2]
              IN  IF Len(part1) < Len(part2) THEN Strip(part1) ELSE Strip(part2)
    ELSE Strip(team_name)

\* The ID without the lower(): upper-case letters are removed with the rest
GenerateOwnerIdNoLower(owner_name) ==
    LET clean_name == SelectSeq(owner_name,
                                LAMBDA c : c \in LowerCase \cup Digits \/ IsSpace(c))
    IN  Join(SplitWords(clean_name, <<>>, <<>>), <<"_">>)

\* FantasyDataExtractor._generate_owner_id
GenerateOwnerId(owner_name) ==
    LET clean_name == SelectSeq(LowerText(owner_name),
                                LAMBDA c : IsAlnum(c) \/ IsSpace(c))
    IN  Join(SplitWords(clean_name, <<>>, <<>>), <<"_">>)

\* FantasyDataExtractor._get_owner_id_from_team_name
GetOwnerIdFromTeamName(team_name) == GenerateOwnerId(ExtractOwnerNameFromTeam(team_name))

\* ------------------------------------------------------ values in memory

\* A string-typed field holds a Python str, None, or (after pandas has read it)
\* a float NaN or an integer.  s is the text; it is <<>> for None and NaN.
Str(t) == [k |-> "str", s |-> t]
None == [k |-> "none", s |-> <<>>]
NaN == [k |-> "nan", s |-> <<>>]
Num(t) == [k |-> "int", s |-> t]

\* An Optional[int] field: <<>> is None, <<n>> is the integer n.
NoInt == <<>>
SomeInt(n) == <<n>>

IsIntText(t) == t # <<>> /\ \A i \in 1..Len(t) : t[i] \in Digits

IsZeroText(t) == \A i \in 1..Len(t) : t[i] = "0"

\* int(text) printed back: leading zeros dropped
RECURSIVE Canonical(_)
Canonical(t) == IF Len(t) > 1 /\ Head(t) = "0" THEN Canonical(Tail(t)) ELSE t

\* Python truthiness of a value: None, '' and 0 are falsy, NaN is truthy
Falsy(v) ==
    \/ v.k = "none"
    \/ v.k = "str" /\ v.s = <<>>
    \/ v.k = "int" /\ IsZeroText(v.s)

\* What csv.writer puts in the cell: str(v), and nothing for None
CellText(v) ==
    CASE v.k = "str" -> v.s
      [] v.k = "int" -> v.s
      [] v.k = "nan" -> <<"n", "a", "n">>
      [] v.k = "none" -> <<>>

\* `v or ''` of the save operations
OrEmpty(v) == IF Falsy(v) THEN <<>> ELSE CellText(v)

\* `record.playoff_seed or ''`: the cell is <<>> (empty) or <<n>>
SeedOrEmpty(seed) == IF seed = NoInt \/ seed = SomeInt(0) THEN <<>> ELSE seed

\* -------------------------------------------------------- pandas.read_csv

\* The default na_values of pandas.read_csv that the model's alphabet can spell
NAValues ==
    { <<>>, <<"n", "a", "n">>, <<"N", "a", "N">>, <<"N", "A">>,
      <<"n", "u", "l", "l">>, <<"N", "o", "n", "e">> }

\* One column of text cells as pandas types it: an NA token is NaN; when all
\* other cells are integers the column is numeric; otherwise the cells stay text.
ReadColumn(cells) ==
    LET rest == {i \in 1..Len(cells) : cells[i] \notin NAValues}
        numeric == rest # {} /\ \A i \in rest : IsIntText(cells[i])
    IN  [i \in 1..Len(cells) |->
            IF cells[i] \in NAValues THEN NaN
            ELSE IF numeric THEN Num(Canonical(cells[i]))
            ELSE Str(cells[i])]

\* `row[c] if pd.notna(row[c]) else None`
NotNaOrNone(v) == IF v = NaN THEN None ELSE v

\* ------------------------------------------------------------ CSV storage

\* A CSV file of the data directory: absent, or a header and rows
NoFile == [exists |-> FALSE, rows |-> <<>>]
FileOf(rows) == [exists |-> TRUE, rows |-> rows]

Column(rows, c) == [i \in 1..Len(rows) |-> rows[i][c]]

\* CSVDataStorage.save_owners: the rows written
OwnerRows(owners) ==
    [i \in 1..Len(owners) |->
        [owner_id |-> CellText(owners[i].owner_id),
         name |-> CellText(owners[i].name),
         email |-> OrEmpty(owners[i].email)]]

\* CSVDataStorage.save_matchups: the rows written
MatchupRows(matchups) ==
    [i \in 1..Len(matchups) |->
        [matchup_id |-> matchups[i].matchup_id,
         season |-> matchups[i].season,
         week |-> matchups[i].week,
         team1_owner_id |-> CellText(matchups[i].team1_owner_id),
         team2_owner_id |-> CellText(matchups[i].team2_owner_id),
         team1_score |-> matchups[i].team1_score,
         team2_score |-> matchups[i].team2_score,
         winner_owner_id |-> OrEmpty(matchups[i].winner_owner_id),
         playoff |-> matchups[i].playoff]]

\* CSVDataStorage.save_season_records: the rows written
SeasonRecordRows(records) ==
    [i \in 1..Len(records) |->
        [owner_id |-> CellText(records[i].owner_id),
         season |-> records[i].season,
         wins |-> records[i].wins,
         losses |-> records[i].losses,
         ties |-> records[i].ties,
         points_for |-> records[i].points_for,
         points_against |-> records[i].points_against,
         final_rank |-> records[i].final_rank,
         playoff_seed |-> SeedOrEmpty(records[i].playoff_seed)]]

\* CSVDataStorage.save_head_to_head_records: the rows written
HeadToHeadRows(records) ==
    [i \in 1..Len(records) |->
        [owner1_id |-> CellText(records[i].owner1_id),
         owner2_id |-> CellText(records[i].owner2_id),
         owner1_wins |-> records[i].owner1_wins,
         owner2_wins |-> records[i].owner2_wins,
         owner1_points |-> records[i].owner1_points,
         owner2_points |-> records[i].owner2_points,
         total_games |-> records[i].total_games]]

\* The `if not xs: return` at the head of every save, then open(path, 'w')
WriteFile(old, items, rows) == IF items = <<>> THEN old ELSE FileOf(rows)

\* CSVDataStorage.load_owners
LoadOwners(file) ==
    IF ~file.exists THEN <<>>
    ELSE LET ids == ReadColumn(Column(file.rows, "owner_id"))
             names == ReadColumn(Column(file.rows, "name"))
             emails == ReadColumn(Column(file.rows, "email"))
         IN  [i \in 1..Len(file.rows) |->
                [owner_id |-> ids[i], name |-> names[i],
                 email |-> NotNaOrNone(emails[i])]]

\* CSVDataStorage.load_matchups
LoadMatchups(file) ==
    IF ~file.exists THEN <<>>
    ELSE LET team1 == ReadColumn(Column(file.rows, "team1_owner_id"))
             team2 == ReadColumn(Column(file.rows, "team2_owner_id"))
             winner == ReadColumn(Column(file.rows, "winner_owner_id"))
         IN  [i \in 1..Len(file.rows) |->
                [matchup_id |-> file.rows[i].matchup_id,
                 season |-> file.rows[i].season,
                 week |-> file.rows[i].week,
                 team1_owner_id |-> team1[i],
                 team2_owner_id |-> team2[i],
                 team1_score |-> file.rows[i].team1_score,
                 team2_score |-> file.rows[i].team2_score,
                 winner_owner_id |-> NotNaOrNone(winner[i]),
                 playoff |-> file.rows[i].playoff]]

\* CSVDataStorage.load_season_records
LoadSeasonRecords(file) ==
    IF ~file.exists THEN <<>>
    ELSE LET ids == ReadColumn(Column(file.rows, "owner_id"))
         IN  [i \in 1..Len(file.rows) |->
                [owner_id |-> ids[i],
                 season |-> file.rows[i].season,
                 wins |-> file.rows[i].wins,
                 losses |-> file.rows[i].losses,
                 ties |-> file.rows[i].ties,
                 points_for |-> file.rows[i].points_for,
                 points_against |-> file.rows[i].points_against,
                 final_rank |-> file.rows[i].final_rank,
                 playoff_seed |-> file.rows[i].playoff_seed]]

\* CSVDataStorage.load_head_to_head_records
LoadHeadToHeadRecords(file) ==
    IF ~file.exists THEN <<>>
    ELSE LET ids1 == ReadColumn(Column(file.rows, "owner1_id"))
             ids2 == ReadColumn(Column(file.rows, "owner2_id"))
         IN  [i \in 1..Len(file.rows) |->
                [owner1_id |-> ids1[i],
                 owner2_id |-> ids2[i],
                 owner1_wins |-> file.rows[i].owner1_wins,
                 owner2_wins |-> file.rows[i].owner2_wins,
                 owner1_points |-> file.rows[i].owner1_points,
                 owner2_points |-> file.rows[i].owner2_points,
                 total_games |-> file.rows[i].total_games]]

\* ------------------------------------------------ extractor: weekly matchups

DigitValue(c) ==
    CASE c = "0" -> 0 [] c = "1" -> 1 [] c = "2" -> 2 [] c = "3" -> 3 [] c = "4" -> 4
      [] c = "5" -> 5 [] c = "6" -> 6 [] c = "7" -> 7 [] c = "8" -> 8 [] c = "9" -> 9

\* int(text) of a text of digits; 0 for the empty text
RECURSIVE TextToNat(_)
TextToNat(t) ==
    IF t = <<>> THEN 0
    ELSE 10 * TextToNat(SubSeq(t, 1, Len(t) - 1)) + DigitValue(t[Len(t)])

\* FantasyDataExtractor._extract_score, in tenths of a point: everything but
\* digits and "." is removed; nothing left, or a text float() rejects, is 0.0.
\* (Digits after the first decimal are below the model's resolution.)
ExtractScore(score_text) ==
    LET cleaned == SelectSeq(score_text, LAMBDA c : c \in Digits \cup {"."})
        dots == {i \in 1..Len(cleaned) : cleaned[i] = "."}
    IN  IF cleaned = <<>> THEN 0
        ELSE IF dots = {} THEN 10 * TextToNat(cleaned)
        ELSE IF Cardinality(dots) > 1 \/ Len(cleaned) = 1 THEN 0
        ELSE LET d == CHOOSE i \in dots : TRUE
                 frac == SubSeq(cleaned, d + 1, Len(cleaned))
             IN  10 * TextToNat(SubSeq(cleaned, 1, d - 1))
                   + (IF frac = <<>> THEN 0 ELSE DigitValue(frac[1]))

\* FantasyDataExtractor._parse_matchup_element: <<the Matchup>>, or <<>> when
\* the element has fewer than two team or score sub-elements.  The matchup_id
\* "{season}_{week}_{index}" is kept as the triple it is formatted from.
ParseMatchupElement(elem, season, week, index) ==
    IF Len(elem.teams) >= 2 /\ Len(elem.scores) >= 2
    THEN LET team1_score == ExtractScore(elem.scores[1])
             team2_score == ExtractScore(elem.scores[2])
             team1_owner_id == Str(GetOwnerIdFromTeamName(Strip(elem.teams[1])))
             team2_owner_id == Str(GetOwnerIdFromTeamName(Strip(elem.teams[2])))
             winner_owner_id == IF team1_score > team2_score THEN team1_owner_id
                                ELSE IF team2_score > team1_score THEN team2_owner_id
                                ELSE None
         IN  << [matchup_id |-> <<season, week, index>>,
                 season |-> season,
                 week |-> week,
                 team1_owner_id |-> team1_owner_id,
                 team2_owner_id |-> team2_owner_id,
                 team1_score |-> team1_score,
                 team2_score |-> team2_score,
                 winner_owner_id |-> winner_owner_id,
                 playoff |-> week > 17] >>
    ELSE <<>>

\* FantasyDataExtractor._extract_weekly_matchups on a loaded page: page.ok is
\* whether load_page returned a document, page.elems the matchup elements found.
\* enumerate() counts from 0.
RECURSIVE ParsePage(_, _, _, _)
ParsePage(elems, season, week, i) ==
    IF i >= Len(elems) THEN <<>>
    ELSE ParseMatchupElement(elems[i + 1], season, week, i)
           \o ParsePage(elems, season, week, i + 1)

ExtractWeeklyMatchups(season, week, page) ==
    IF ~page.ok THEN <<>> ELSE ParsePage(page.elems, season, week, 0)

\* ----------------------------------------------- analytics: head to head

\* h2h_stats is a defaultdict keyed by (owner, owner), iterated in insertion
\* order: a sequence of entries, one per key, in the order the keys were made.
DefaultStats(key) ==
    [key |-> key, wins |-> 0, losses |-> 0, points_for |-> 0, points_against |-> 0,
     games |-> 0]

HasKey(stats, key) == \E i \in 1..Len(stats) : stats[i].key = key

\* h2h_stats[key][field] += amount
AddStat(stats, key, field, amount) ==
    LET st == IF HasKey(stats, key) THEN stats ELSE Append(stats, DefaultStats(key))
    IN  [i \in 1..Len(st) |->
            IF st[i].key = key THEN [st[i] EXCEPT ![field] = @ + amount] ELSE st[i]]

StatsOf(stats, key) == stats[CHOOSE i \in 1..Len(stats) : stats[i].key = key]

\* a == b of Python on loaded values: NaN equals nothing, a str no number
PyEq(a, b) == a = b /\ a.k # "nan"

\* sorted([owner1, owner2]) raises TypeError when a str meets a float or an int
Sortable(a, b) == (a.k = "str") <=> (b.k = "str")

\* tuple(sorted([owner1, owner2])) as the set of ordered pairs that give the same
\* key: both orders, unless one is NaN and the other a number (every comparison
\* with NaN is false, so sorted() leaves either order as it is).
PairKey(a, b) ==
    IF (a.k = "nan") # (b.k = "nan") THEN {<<a, b>>} ELSE {<<a, b>>, <<b, a>>}

\* The pass with the game counted for (owner1, owner2) alone
AccumulateMatchupOneWayGames(stats, matchup) ==
    LET owner1 == matchup.team1_owner_id
        owner2 == matchup.team2_owner_id
        s1 == IF PyEq(matchup.winner_owner_id, owner1)
              THEN AddStat(AddStat(stats, <<owner1, owner2>>, "wins", 1),
                           <<owner2, owner1>>, "losses", 1)
              ELSE AddStat(AddStat(stats, <<owner2, owner1>>, "wins", 1),
                           <<owner1, owner2>>, "losses", 1)
        s2 == AddStat(s1, <<owner1, owner2>>, "points_for", matchup.team1_score)
        s3 == AddStat(s2, <<owner1, owner2>>, "points_against", matchup.team2_score)
        s4 == AddStat(s3, <<owner2, owner1>>, "points_for", matchup.team2_score)
        s5 == AddStat(s4, <<owner2, owner1>>, "points_against", matchup.team1_score)
    IN  IF Falsy(matchup.winner_owner_id) THEN stats
        ELSE AddStat(s5, <<owner1, owner2>>, "games", 1)

\* One pass of the loop over the matchups (analytics.py lines 28-57)
AccumulateMatchup(stats, matchup) ==
    LET owner1 == matchup.team1_owner_id
        owner2 == matchup.team2_owner_id
        s1 == IF PyEq(matchup.winner_owner_id, owner1)
              THEN AddStat(AddStat(stats, <<owner1, owner2>>, "wins", 1),
                           <<owner2, owner1>>, "losses", 1)
              ELSE AddStat(AddStat(stats, <<owner2, owner1>>, "wins", 1),
                           <<owner1, owner2>>, "losses", 1)
        s2 == AddStat(s1, <<owner1, owner2>>, "points_for", matchup.team1_score)
        s3 == AddStat(s2, <<owner1, owner2>>, "points_against", matchup.team2_score)
        s4 == AddStat(s3, <<owner2, owner1>>, "points_for", matchup.team2_score)
        s5 == AddStat(s4, <<owner2, owner1>>, "points_against", matchup.team1_score)
        s6 == AddStat(s5, <<owner1, owner2>>, "games", 1)
    IN  IF Falsy(matchup.winner_owner_id) THEN stats
        ELSE AddStat(s6, <<owner2, owner1>>, "games", 1)

RECURSIVE AccumulateAll(_, _)
AccumulateAll(stats, matchups) ==
    IF matchups = <<>> THEN stats
    ELSE AccumulateAll(AccumulateMatchup(stats, Head(matchups)), Tail(matchups))

\* The collapse of h2h_stats into records (analytics.py lines 60-84)
RECURSIVE CollapseStats(_, _, _, _)
CollapseStats(stats, i, processed_pairs, records) ==
    IF i > Len(stats) THEN records
    ELSE LET owner1 == stats[i].key[1]
             owner2 == stats[i].key[2]
             pair_key == PairKey(owner1, owner2)
             stats1 == StatsOf(stats, <<owner1, owner2>>)
             stats2 == StatsOf(stats, <<owner2, owner1>>)
             record == [owner1_id |-> owner1,
                        owner2_id |-> owner2,
                        owner1_wins |-> stats1.wins,
                        owner2_wins |-> stats2.wins,
                        owner1_points |-> stats1.points_for,
                        owner2_points |-> stats2.points_for,
                        total_games |-> stats1.games]
         IN  IF pair_key \in processed_pairs
             THEN CollapseStats(stats, i + 1, processed_pairs, records)
             ELSE CollapseStats(stats, i + 1, processed_pairs \cup {pair_key},
                                Append(records, record))

\* Whether the loop raises: a matchup with a winner whose two owner ids do not sort
H2HRaises(matchups) ==
    \E i \in 1..Len(matchups) :
        /\ ~Falsy(matchups[i].winner_owner_id)
        /\ ~Sortable(matchups[i].team1_owner_id, matchups[i].team2_owner_id)

\* FantasyAnalytics.calculate_head_to_head_records on the loaded matchups: what
\* it returns, with the h2h_stats it built
HeadToHead(matchups) ==
    IF H2HRaises(matchups)
    THEN [raised |-> TRUE, stats |-> <<>>, records |-> <<>>]
    ELSE LET stats == AccumulateAll(<<>>, matchups)
         IN  [raised |-> FALSE, stats |-> stats,
              records |-> CollapseStats(stats, 1, {}, <<>>)]

\* ------------------------------------------------------------------ state

VARIABLES
    files,        \* the CSV files of the data directory, by entity type
    lastSaved,    \* by entity type: <<>> before any save, else <<the list passed
                  \* to the most recent save_* call>>
    ret,          \* what the most recent analytics call returned
    league_data   \* the bundle FantasyDataExtractor is filling

storageVars == <<files, lastSaved, ret, league_data>>

NoReturn == [op |-> "none", raised |-> FALSE, stats |-> <<>>, records |-> <<>>]

EmptyLeagueData == [owners |-> <<>>, matchups |-> <<>>, season_records |-> <<>>]

\* CSVDataStorage.__init__ on a fresh data directory, FantasyAnalytics.__init__,
\* and the league_data of extract_all_league_data before the first season
StorageInit ==
    /\ files = [owners |-> NoFile, matchups |-> NoFile, season_records |-> NoFile,
                head_to_head |-> NoFile]
    /\ lastSaved = [owners |-> <<>>, matchups |-> <<>>, season_records |-> <<>>,
                    head_to_head |-> <<>>]
    /\ ret = NoReturn
    /\ league_data = EmptyLeagueData

\* The lists of at most n elements of S
ListsUpTo(S, n) == UNION {[1..k -> S] : k \in 0..n}

\* -------------------------------------------------------- storage operations

\* CSVDataStorage.save_owners(owners)
SaveOwners(owners) ==
    /\ files' = [files EXCEPT !.owners = WriteFile(@, owners, OwnerRows(owners))]
    /\ lastSaved' = [lastSaved EXCEPT !.owners = <<owners>>]
    /\ ret' = NoReturn
    /\ UNCHANGED league_data

\* CSVDataStorage.save_matchups(matchups)
SaveMatchups(matchups) ==
    /\ files' = [files EXCEPT !.matchups = WriteFile(@, matchups, MatchupRows(matchups))]
    /\ lastSaved' = [lastSaved EXCEPT !.matchups = <<matchups>>]
    /\ ret' = NoReturn
    /\ UNCHANGED league_data

\* CSVDataStorage.save_season_records(records)
SaveSeasonRecords(records) ==
    /\ files' = [files EXCEPT
                   !.season_records = WriteFile(@, records, SeasonRecordRows(records))]
    /\ lastSaved' = [lastSaved EXCEPT !.season_records = <<records>>]
    /\ ret' = NoReturn
    /\ UNCHANGED league_data

\* CSVDataStorage.save_head_to_head_records(records)
SaveHeadToHeadRecords(records) ==
    /\ files' = [files EXCEPT
                   !.head_to_head = WriteFile(@, records, HeadToHeadRows(records))]
    /\ lastSaved' = [lastSaved EXCEPT !.head_to_head = <<records>>]
    /\ ret' = NoReturn
    /\ UNCHANGED league_data

\* CSVDataStorage.save_all_data(league_data): teams and rosters are never filled
\* by the extractor, so their saves return at once
SaveAllData ==
    /\ files' = [files EXCEPT
                   !.owners = WriteFile(@, league_data.owners,
                                        OwnerRows(league_data.owners)),
                   !.matchups = WriteFile(@, league_data.matchups,
                                          MatchupRows(league_data.matchups)),
                   !.season_records = WriteFile(@, league_data.season_records,
                                                SeasonRecordRows(league_data.season_records))]
    /\ lastSaved' = [lastSaved EXCEPT
                       !.owners = <<league_data.owners>>,
                       !.matchups = <<league_data.matchups>>,
                       !.season_records = <<league_data.season_records>>]
    /\ ret' = NoReturn
    /\ UNCHANGED league_data

\* FantasyAnalytics.calculate_head_to_head_records: loads the matchups, builds
\* the records, saves them and returns them; an exception leaves the file alone
CalculateHeadToHeadRecords ==
    LET result == HeadToHead(LoadMatchups(files.matchups))
    IN  /\ ret' = [op |-> "calculate_head_to_head_records", raised |-> result.raised,
                   stats |-> result.stats, records |-> result.records]
        /\ IF result.raised
           THEN UNCHANGED <<files, lastSaved>>
           ELSE /\ files' = [files EXCEPT
                               !.head_to_head = WriteFile(@, result.records,
                                                          HeadToHeadRows(result.records))]
                /\ lastSaved' = [lastSaved EXCEPT !.head_to_head = <<result.records>>]
        /\ UNCHANGED league_data

\* One call of _extract_weekly_matchups from extract_all_league_data, its result
\* appended to league_data['matchups']
ExtractWeek(season, week, page) ==
    /\ Len(league_data.matchups) + Len(page.elems) <= MaxLen
    /\ league_data' = [league_data EXCEPT
                         !.matchups = @ \o ExtractWeeklyMatchups(season, week, page)]
    /\ UNCHANGED <<files, lastSaved, ret>>

\* ---------------------------------------------------------------- scraper

\* Most browser processes the model lets be alive at once
MaxBrowsers == 2

\* time.sleep(2) after driver.get
JsWait == 2
\* WebDriverWait(self.driver, 10)
WaitTimeout == 10
\* float(os.getenv('RATE_LIMIT', '2.0')): the default
DefaultRateLimit == 2
\* the values of RATE_LIMIT the model tries
RateLimits == {DefaultRateLimit, DefaultRateLimit + 3}
\* before any navigation there is no time to measure
NoTime == 0 - 1

VARIABLES
    driver,           \* self.driver: "None" or "session"
    wait,             \* self.wait: "None" or "wait"
    rate_limit,       \* self.rate_limit
    session_cookies,  \* whether self.session_cookies is non-empty
    browsers,         \* browser processes alive
    init_ret,         \* what the last init_driver returned: "none", "True", "False"
    lp,               \* the last load_page call: how it ended and what it did
    elapsed,          \* time since the latest navigation was issued
    gap,              \* time between the two latest navigations
    script            \* the owners-data script: where it is and what it returns

scraperVars ==
    <<driver, wait, rate_limit, session_cookies, browsers, init_ret, lp, elapsed, gap,
      script>>

NoLoad ==
    [status |-> "none", exception |-> "none", navigated |-> FALSE,
     rate_slept |-> FALSE, url |-> "none", after_failure |-> FALSE]

IdleScript == [pc |-> "idle", year |-> 0, found |-> FALSE, result |-> "none"]

\* NFLFantasyScraper.__init__
ScraperInit ==
    /\ driver = "None"
    /\ wait = "None"
    /\ rate_limit \in RateLimits
    /\ session_cookies \in BOOLEAN
    /\ browsers = 0
    /\ init_ret = "none"
    /\ lp = NoLoad
    /\ elapsed = NoTime
    /\ gap = NoTime
    /\ script = IdleScript

\* Where init_driver can fail: launching Chrome, the navigator script, the cookies
InitFailures == {"none", "chrome", "execute_script", "cookies"}

\* NFLFantasyScraper.init_driver: every exception is caught and reported as False,
\* with whatever was assigned before it left in place
InitDriver(fail_at) ==
    /\ fail_at = "cookies" => session_cookies
    /\ fail_at # "chrome" => browsers < MaxBrowsers
    /\ driver' = IF fail_at = "chrome" THEN driver ELSE "session"
    /\ browsers' = IF fail_at = "chrome" THEN browsers ELSE browsers + 1
    /\ wait' = IF fail_at \in {"chrome", "execute_script"} THEN wait ELSE "wait"
    /\ init_ret' = IF fail_at = "none" THEN "True" ELSE "False"
    /\ UNCHANGED <<rate_limit, session_cookies, lp, elapsed, gap>>

\* NFLFantasyScraper.close_driver
CloseDriver ==
    /\ IF driver # "None"
       THEN /\ browsers' = browsers - 1
            /\ driver' = "None"
            /\ wait' = "None"
       ELSE UNCHANGED <<browsers, driver, wait>>
    /\ UNCHANGED <<rate_limit, session_cookies, init_ret, lp, elapsed, gap>>

\* What the environment can do to a page load
LoadOutcomes == {"ok", "get_fails", "timeout", "parse_fails"}

\* The exception raised inside the try block of load_page, "none" when it runs
\* through
LoadPageException(wait_for_element, env) ==
    IF driver = "None" THEN "AttributeError"
    ELSE IF env = "get_fails" THEN "WebDriverException"
    ELSE IF wait_for_element /\ wait = "None" THEN "AttributeError"
    ELSE IF wait_for_element /\ env = "timeout" THEN "TimeoutException"
    ELSE IF env = "parse_fails" THEN "WebDriverException"
    ELSE "none"

\* load_page with the `except TimeoutException` clause alone
LoadPageReturnTimeoutOnly(exception) ==
    IF exception = "none" THEN "soup"
    ELSE IF exception = "TimeoutException" THEN "None"
    ELSE "raised"

\* The except clauses of load_page: `except TimeoutException` and `except Exception`
\* both return None
LoadPageReturn(exception) ==
    IF exception = "none" THEN "soup"
    ELSE IF exception = "TimeoutException" THEN "None"
    ELSE IF exception \in {"AttributeError", "WebDriverException"} THEN "None"
    ELSE "raised"

\* Whether load_page reaches time.sleep(self.rate_limit): only at the end of the
\* try block
RateLimitSleep(exception) == exception = "none"

\* The time a load_page call takes once driver.get has returned
LoadPageTime(wait_for_element, env, exception) ==
    IF driver = "None" \/ env = "get_fails" THEN 0
    ELSE JsWait
         + (IF exception = "TimeoutException" THEN WaitTimeout ELSE 0)
         + (IF RateLimitSleep(exception) THEN rate_limit ELSE 0)

\* NFLFantasyScraper.load_page(url, wait_for_element)
LoadPage(url, wait_for_element, env) ==
    LET exception == LoadPageException(wait_for_element, env)
        navigated == driver # "None"
    IN  /\ env = "timeout" => wait_for_element
        /\ lp' = [status |-> LoadPageReturn(exception),
                  exception |-> exception,
                  navigated |-> navigated,
                  rate_slept |-> RateLimitSleep(exception),
                  url |-> url,
                  after_failure |-> lp.after_failure \/ lp.status = "None"]
        /\ gap' = IF navigated THEN elapsed ELSE gap
        /\ elapsed' = IF navigated THEN LoadPageTime(wait_for_element, env, exception)
                      ELSE elapsed
        /\ UNCHANGED <<driver, wait, rate_limit, session_cookies, browsers, init_ret>>

Urls == {"standings", "schedule"}

\* ---------------------------------------------------- final-dataset builder

\* Absent cell of a DataFrame (NaN), and the None that normalize_team_name and
\* get_manager_name give for it
Missing == <<"<NA>">>

\* normalize_team_name
NormalizeTeamName(name) ==
    IF name = Missing THEN Missing
    ELSE LowerText(Replace(Replace(Strip(name), <<"-">>, <<" ">>), <<" ", " ">>, <<" ">>))

Waiver == <<"W", "a", "i", "v", "e", "r">>

\* A dict in insertion order: a sequence of [key, value], one entry per key
DictHas(d, key) == \E i \in 1..Len(d) : d[i].key = key

DictGet(d, key) == d[CHOOSE i \in 1..Len(d) : d[i].key = key].value

\* d[key] = value: a new key goes last, an old key keeps its place
DictSet(d, key, value) ==
    IF DictHas(d, key)
    THEN [i \in 1..Len(d) |-> IF d[i].key = key THEN [key |-> key, value |-> value]
                              ELSE d[i]]
    ELSE Append(d, [key |-> key, value |-> value])

\* The loop over owners_df that fills normalized_to_actual
RECURSIVE NormalizedToActual(_, _)
NormalizedToActual(d, owners_df) ==
    IF owners_df = <<>> THEN d
    ELSE LET row == Head(owners_df)
         IN  IF row.manager_name = Waiver
             THEN NormalizedToActual(d, Tail(owners_df))
             ELSE NormalizedToActual(
                      DictSet(d, NormalizeTeamName(row.team_name), row.team_name),
                      Tail(owners_df))

\* The same loop, filling team_to_manager
RECURSIVE TeamToManager(_, _)
TeamToManager(d, owners_df) ==
    IF owners_df = <<>> THEN d
    ELSE LET row == Head(owners_df)
         IN  IF row.manager_name = Waiver
             THEN TeamToManager(d, Tail(owners_df))
             ELSE TeamToManager(DictSet(d, row.team_name, row.manager_name),
                                Tail(owners_df))

\* The condition of the fuzzy-matching loop
FuzzyMatch(normalized_matchup, norm_owner) ==
    \/ normalized_matchup = norm_owner
    \/ Replace(normalized_matchup, <<" ">>, <<>>) = Replace(norm_owner, <<" ">>, <<>>)
    \/ Replace(normalized_matchup,
               <<"f", "o", "u", "r", " ", "t", "w", "e", "n", "t", "y", " ", "o", "n", "e">>,
               <<"f", "o", "u", "r", "t", "w", "e", "n", "t", "y", "-", "o", "n", "e">>)
         = norm_owner
    \/ Replace(normalized_matchup, <<"g", " ", "s", "p", "o", "t">>,
               <<"g", "-", "s", "p", "o", "t">>) = norm_owner
    \/ Replace(normalized_matchup,
               <<"h", "i", "d", "e", " ", "n", " ", "z", "e", "k", "e">>,
               <<"h", "i", "d", "e", " ", "n", " ", "z", "e", "k", "e">>) = norm_owner

\* The owners team one matchup team resolves to: <<the team>>, or <<>> for "no
\* match found"
ResolveTeam(matchup_team, normalized_to_actual) ==
    LET normalized_matchup == NormalizeTeamName(matchup_team)
        hits == {i \in 1..Len(normalized_to_actual) :
                    FuzzyMatch(normalized_matchup, normalized_to_actual[i].key)}
    IN  IF DictHas(normalized_to_actual, normalized_matchup)
        THEN <<DictGet(normalized_to_actual, normalized_matchup)>>
        ELSE IF hits = {} THEN <<>>
        ELSE <<normalized_to_actual[CHOOSE i \in hits : \A j \in hits : i <= j].value>>

\* The fuzzy-matching loop raises AttributeError on None.replace: a matchup team
\* without a name is no key of normalized_to_actual (the owners rows read here
\* carry team names), and the first owner entry's condition calls replace on it
ResolveRaises(matchup_team, normalized_to_actual) ==
    /\ NormalizeTeamName(matchup_team) = Missing
    /\ ~DictHas(normalized_to_actual, Missing)
    /\ normalized_to_actual # <<>>

\* The loop with an owners team given to the first matchup team that resolves to it
RECURSIVE MatchupToOwnerTeamFirstClaims(_, _, _)
MatchupToOwnerTeamFirstClaims(d, order, normalized_to_actual) ==
    IF order = <<>> THEN d
    ELSE LET hit == ResolveTeam(Head(order), normalized_to_actual)
             taken == hit # <<>> /\ \E i \in 1..Len(d) : d[i].value = hit[1]
         IN  MatchupToOwnerTeamFirstClaims(
                 IF hit = <<>> \/ taken THEN d ELSE DictSet(d, Head(order), hit[1]),
                 Tail(order), normalized_to_actual)

\* The loop over matchup_teams, a set, in the order this run iterates it:
\* matchup_to_owner_team
RECURSIVE MatchupToOwnerTeam(_, _, _)
MatchupToOwnerTeam(d, order, normalized_to_actual) ==
    IF order = <<>> THEN d
    ELSE LET hit == ResolveTeam(Head(order), normalized_to_actual)
         IN  MatchupToOwnerTeam(
                 IF hit = <<>> THEN d ELSE DictSet(d, Head(order), hit[1]),
                 Tail(order), normalized_to_actual)

UnknownPrefix == <<"U", "n", "k", "n", "o", "w", "n", "_">>

\* get_manager_name
GetManagerName(team_name, matchup_to_owner_team, team_to_manager) ==
    IF team_name = Missing THEN Missing
    ELSE IF DictHas(matchup_to_owner_team, team_name)
    THEN DictGet(team_to_manager, DictGet(matchup_to_owner_team, team_name))
    ELSE UnknownPrefix \o Replace(team_name, <<" ">>, <<"_">>)

\* set(matchups_df['team1'].unique()) | set(matchups_df['team2'].unique())
MatchupTeams(matchups_df) ==
    {matchups_df[i].team1 : i \in 1..Len(matchups_df)}
      \cup {matchups_df[i].team2 : i \in 1..Len(matchups_df)}

\* The orders in which a set can be iterated
RECURSIVE Orders(_)
Orders(S) ==
    IF S = {} THEN {<<>>}
    ELSE UNION {{<<x>> \o o : o \in Orders(S \ {x})} : x \in S}

\* create_final_dataset_fixed: whether it raised, and the mapping reference and
\* final dataset it writes when it did not
FinalDataset(matchups_df, owners_df, order) ==
    LET normalized_to_actual == NormalizedToActual(<<>>, owners_df)
        team_to_manager == TeamToManager(<<>>, owners_df)
        matchup_to_owner_team == MatchupToOwnerTeam(<<>>, order, normalized_to_actual)
        manager(t) == GetManagerName(t, matchup_to_owner_team, team_to_manager)
    IN  [raised |-> \E i \in 1..Len(order) : ResolveRaises(order[i], normalized_to_actual),
         mapping |->
            [i \in 1..Len(matchup_to_owner_team) |->
                [matchup_team_name |-> matchup_to_owner_team[i].key,
                 actual_team_name |-> matchup_to_owner_team[i].value,
                 manager_name |-> DictGet(team_to_manager, matchup_to_owner_team[i].value)]],
         matchups_final |->
            [i \in 1..Len(matchups_df) |->
                [season |-> matchups_df[i].season,
                 week |-> matchups_df[i].week,
                 team1 |-> matchups_df[i].team1,
                 team2 |-> matchups_df[i].team2,
                 winner |-> matchups_df[i].winner,
                 team1_score |-> matchups_df[i].team1_score,
                 team2_score |-> matchups_df[i].team2_score,
                 playoff |-> matchups_df[i].playoff,
                 manager1 |-> manager(matchups_df[i].team1),
                 manager2 |-> manager(matchups_df[i].team2),
                 winning_manager |-> manager(matchups_df[i].winner)]]]

\* ------------------------------------------------- temporal-dynamics script

Phoenix == <<"P", "h", "o", "e", "n", "i", "x">>
Billy == <<"B", "i", "l", "l", "y">>
Daniel == <<"D", "a", "n", "i", "e", "l">>

\* active_managers of create_temporal_dynamics_insights
ActiveManagers ==
    {<<"H", "a", "y", "d", "e", "n">>,
     <<"M", "i", "c", "h", "a", "e", "l">>,
     Phoenix,
     Billy,
     <<"R", "o", "b", "b", "i", "e">>,
     <<"N", "e", "l", "s", "o", "n">>,
     <<"F", "r", "a", "s", "e", "r">>,
     <<"J", "u", "s", "t", "i", "n">>,
     <<"A", "n", "g", "u", "s">>,
     <<"N", "i", "c">>,
     <<"W", "i", "l", "l", "i", "a", "m">>,
     <<"J", "a", "m", "e", "s">>}

\* current_matchups: the rows whose two managers are both active
CurrentMatchups(matchups_df) ==
    SelectSeq(matchups_df,
              LAMBDA row : row.manager1 \in ActiveManagers /\ row.manager2 \in ActiveManagers)

RECURSIVE SumSeq(_)
SumSeq(q) == IF q = <<>> THEN 0 ELSE Head(q) + SumSeq(Tail(q))

\* season_averages[season] of analyze_bad_beats: the mean of both score columns of
\* the season's rows, kept as the fraction sum / n
SeasonAverage(matchups_df, season) ==
    LET season_data == SelectSeq(matchups_df, LAMBDA row : row.season = season)
    IN  [sum |-> SumSeq([i \in 1..Len(season_data) |->
                            season_data[i].team1_score + season_data[i].team2_score]),
         n |-> 2 * Len(season_data)]

\* "well above average": 20 points, in tenths
BadBeatMargin == 200

\* score >= season_avg + 20
WellAbove(score, avg) == score * avg.n >= avg.sum + BadBeatMargin * avg.n

\* The entries one row adds to bad_beats: team1's, then team2's
BadBeatsOfRow(row, avg, active_managers) ==
    (IF /\ row.manager1 \in active_managers
        /\ WellAbove(row.team1_score, avg)
        /\ row.winning_manager # row.manager1
     THEN << [season |-> row.season, week |-> row.week, manager |-> row.manager1,
              team |-> row.team1, score |-> row.team1_score,
              opponent |-> row.manager2, opponent_score |-> row.team2_score,
              margin |-> row.team2_score - row.team1_score,
              season_avg |-> avg, playoff |-> row.playoff] >>
     ELSE <<>>)
    \o
    (IF /\ row.manager2 \in active_managers
        /\ WellAbove(row.team2_score, avg)
        /\ row.winning_manager # row.manager2
     THEN << [season |-> row.season, week |-> row.week, manager |-> row.manager2,
              team |-> row.team2, score |-> row.team2_score,
              opponent |-> row.manager1, opponent_score |-> row.team1_score,
              margin |-> row.team1_score - row.team2_score,
              season_avg |-> avg, playoff |-> row.playoff] >>
     ELSE <<>>)

RECURSIVE BadBeatsOfRows(_, _, _)
BadBeatsOfRows(rows, matchups_df, active_managers) ==
    IF rows = <<>> THEN <<>>
    ELSE BadBeatsOfRow(Head(rows), SeasonAverage(matchups_df, Head(rows).season),
                       active_managers)
           \o BadBeatsOfRows(Tail(rows), matchups_df, active_managers)

\* above_avg = score - season_avg of a before that of b, and then margin: the
\* order of sort_values(['above_avg', 'margin'], ascending=[False, False])
SortsBefore(a, b) ==
    LET above_a == (a.score * a.season_avg.n - a.season_avg.sum) * b.season_avg.n
        above_b == (b.score * b.season_avg.n - b.season_avg.sum) * a.season_avg.n
    IN  above_a > above_b \/ (above_a = above_b /\ a.margin > b.margin)

\* A stable sort by insertion
RECURSIVE InsertSorted(_, _)
InsertSorted(sorted, e) ==
    IF sorted = <<>> THEN <<e>>
    ELSE IF SortsBefore(e, Head(sorted)) THEN <<e>> \o sorted
    ELSE <<Head(sorted)>> \o InsertSorted(Tail(sorted), e)

RECURSIVE SortBadBeats(_, _)
SortBadBeats(sorted, rest) ==
    IF rest = <<>> THEN sorted
    ELSE SortBadBeats(InsertSorted(sorted, Head(rest)), Tail(rest))

Seasons(matchups_df) == {matchups_df[i].season : i \in 1..Len(matchups_df)}

\* analyze_bad_beats(matchups_df, active_managers), with the season_averages it
\* used; sort_values on a frame without rows has no column to sort by and raises
\* KeyError
AnalyzeBadBeats(matchups_df, active_managers) ==
    LET bad_beats == BadBeatsOfRows(matchups_df, matchups_df, active_managers)
        season_averages == [season \in Seasons(matchups_df) |->
                               SeasonAverage(matchups_df, season)]
    IN  [raised |-> bad_beats = <<>>,
         season_averages |-> season_averages,
         bad_beats |-> SortBadBeats(<<>>, bad_beats)]

\* season_records[season][manager] of analyze_statement_games: the manager's wins
\* and games of the season, win_pct being wins / total, and 0 without games
SeasonRecordOf(matchups_df, season, manager) ==
    LET manager_games == SelectSeq(matchups_df, LAMBDA row :
                             row.season = season
                             /\ (row.manager1 = manager \/ row.manager2 = manager))
        wins == Len(SelectSeq(manager_games, LAMBDA row : row.winning_manager = manager))
    IN  IF Len(manager_games) > 0 THEN [wins |-> wins, total |-> Len(manager_games)]
        ELSE [wins |-> 0, total |-> 1]

\* analyze_statement_games: the rows of the frame it builds, without their order:
\* games the manager with the lower season win_pct won, the two win_pct at
\* least 0.3 apart
AnalyzeStatementGames(matchups_df, active_managers) ==
    { [season |-> row.season, week |-> row.week, winner |-> row.winning_manager,
       loser |-> IF row.winning_manager = row.manager1 THEN row.manager2
                 ELSE row.manager1] :
        row \in {matchups_df[i] : i \in
                   {j \in 1..Len(matchups_df) :
                      LET r == matchups_df[j]
                          rec1 == SeasonRecordOf(matchups_df, r.season, r.manager1)
                          rec2 == SeasonRecordOf(matchups_df, r.season, r.manager2)
                          a == rec1.wins * rec2.total
                          b == rec2.wins * rec1.total
                      IN  /\ r.manager1 \in active_managers
                          /\ r.manager2 \in active_managers
                          /\ 10 * (IF a >= b THEN a - b ELSE b - a)
                               >= 3 * rec1.total * rec2.total
                          /\ \/ r.winning_manager = r.manager1 /\ a < b
                             \/ r.winning_manager = r.manager2 /\ b < a}} }

\* h2h_records of analyze_kryptonite_matchups: wins, losses and games by
\* (manager, opponent), in the order the keys were made
RECURSIVE KryptoniteRecords(_, _, _)
KryptoniteRecords(h2h_records, rows, active_managers) ==
    IF rows = <<>> THEN h2h_records
    ELSE LET row == Head(rows)
             key1 == <<row.manager1, row.manager2>>
             key2 == <<row.manager2, row.manager1>>
             games == AddStat(AddStat(h2h_records, key1, "games", 1), key2, "games", 1)
             counted ==
                 IF row.winning_manager = row.manager1
                 THEN AddStat(AddStat(games, key1, "wins", 1), key2, "losses", 1)
                 ELSE IF row.winning_manager = row.manager2
                 THEN AddStat(AddStat(games, key1, "losses", 1), key2, "wins", 1)
                 ELSE games
         IN  IF row.manager1 \notin active_managers \/ row.manager2 \notin active_managers
             THEN KryptoniteRecords(h2h_records, Tail(rows), active_managers)
             ELSE KryptoniteRecords(counted, Tail(rows), active_managers)

\* 'Kryptonite' if win_pct >= 0.9 else 'Heavy Favorite'
DominanceLevel(wins, games) ==
    IF 10 * wins >= 9 * games THEN "Kryptonite" ELSE "Heavy Favorite"

\* analyze_kryptonite_matchups: the rows of the frame it builds, without their
\* order; dominance is wins / games * 100, kept as the fraction
AnalyzeKryptoniteMatchups(matchups_df, active_managers) ==
    LET h2h_records == KryptoniteRecords(<<>>, matchups_df, active_managers)
    IN  { [dominator |-> record.key[1], victim |-> record.key[2],
           wins |-> record.wins, losses |-> record.losses, games |-> record.games,
           dominance |-> [sum |-> 100 * record.wins, n |-> record.games],
           dominance_level |-> DominanceLevel(record.wins, record.games)] :
            record \in {h2h_records[i] : i \in
                          {j \in 1..Len(h2h_records) :
                             /\ h2h_records[j].games >= 5
                             /\ 10 * h2h_records[j].wins >= 8 * h2h_records[j].games}} }

\* create_temporal_dynamics_insights through its analyses: bad beats, statement
\* games, then kryptonite matchups, each ending in a sort_values that raises
\* KeyError on a frame without rows, so that a later analysis is reached only when
\* the earlier ones found something
TemporalDynamicsInsights(matchups_df) ==
    LET current_matchups == CurrentMatchups(matchups_df)
        bad_beats == AnalyzeBadBeats(current_matchups, ActiveManagers)
        statement_games == AnalyzeStatementGames(current_matchups, ActiveManagers)
        kryptonite == AnalyzeKryptoniteMatchups(current_matchups, ActiveManagers)
    IN  [raised |-> bad_beats.raised \/ statement_games = {} \/ kryptonite = {},
         season_averages |-> bad_beats.season_averages,
         bad_beats |-> bad_beats.bad_beats,
         statement_games |-> IF bad_beats.raised THEN {} ELSE statement_games,
         kryptonite |-> IF bad_beats.raised \/ statement_games = {} THEN {}
                        ELSE kryptonite]

\* ------------------------------------------------- script pipeline: state

\* Most rows of an input CSV of the script pipeline
MaxRows == 2

VARIABLES
    raw_matchups,  \* the rows of data/full_seasons_2017_2024/matchups_simplified.csv
    owners_data,   \* the rows of data/actual_owners/owners_2017_2024_complete.csv
    final,         \* the files of data/final_dataset, as the latest build wrote them
    prev_final,    \* the same, as the build before the latest wrote them
    insights       \* what the temporal-dynamics script computed

pipelineVars == <<raw_matchups, owners_data, final, prev_final, insights>>

VARIABLES
    call,          \* a helper function applied to one input: its name, argument and result
    h2h_analysis,  \* what the head-to-head analysis script computed
    fs,            \* the project tree the cleanup utility works on: by path, what is there
    site,          \* the visualizations and docs directories: absent, or their files
    proc,          \* the latest run of a maintenance script: its outcome and output
    table,         \* the matchup table page in a browser: its script's variables
    extraction     \* the run of extract_all_league_data: its seasons, the site it
                   \* scrapes, the load it is at and the loads that gave a page

toolVars == <<call, h2h_analysis, fs, site, proc, table, extraction>>

NoCall == [op |-> "none", arg |-> <<>>, done |-> FALSE, raised |-> FALSE, value |-> <<>>]

NoAnalysis == [done |-> FALSE, h2h_records |-> <<>>, overall_records |-> <<>>,
               dominant_records |-> <<>>, close_rivalries |-> <<>>]

\* A directory that does not exist; one that does has its files' content by name
NoDir == [exists |-> FALSE, files |-> <<>>]

NoProc == [script |-> "none", runs |-> 0, exit_code |-> 0, report |-> <<>>,
           removed |-> {}, first_removed |-> {}, before |-> <<>>]

\* The page before a browser has opened it; `controls` are the values of the
\* filter controls, `stats` the summary cells, `tbody` the table body
NoTable == [open |-> FALSE, matchupData |-> <<>>, filteredData |-> <<>>,
            sortColumn |-> "season", sortDirection |-> "desc",
            controls |-> [season |-> <<>>, era |-> "", manager |-> <<>>, weekType |-> "",
                          gameType |-> "", search |-> <<>>],
            stats |-> [totalMatches |-> 0, avgPoints |-> 0, highScoringCount |-> 0,
                       blowoutCount |-> 0, closeGameCount |-> 0],
            tbody |-> [display |-> TRUE, rows |-> <<>>],
            last |-> "none", arg |-> "", threw |-> FALSE]

\* No extract_all_league_data is running
NoExtraction == [seasons |-> <<>>, web |-> <<>>, at |-> 0, loaded |-> {}, done |-> FALSE]

\* No maintenance script has run, their directories are not looked at, and the
\* table page is not open
ScriptsIdleButExtraction ==
    /\ table = NoTable
    /\ fs = <<>>
    /\ site = [visualizations |-> NoDir, docs |-> NoDir]
    /\ proc = NoProc

ScriptsIdle == ScriptsIdleButExtraction /\ extraction = NoExtraction

\* No helper is being called and no report script has run
ToolsIdle ==
    /\ call = NoCall
    /\ h2h_analysis = NoAnalysis
    /\ ScriptsIdle

vars == <<storageVars, scraperVars, pipelineVars, toolVars>>

NoFinal == [exists |-> FALSE, raised |-> FALSE, mapping |-> <<>>, matchups_final |-> <<>>]

NoInsights == [done |-> FALSE, raised |-> FALSE, season_averages |-> <<>>,
               bad_beats |-> <<>>, statement_games |-> {}, kryptonite |-> {}]

\* create_final_dataset_fixed, this run iterating matchup_teams in `order`; a run
\* that raises writes nothing
CreateFinalDataset(order) ==
    LET built == FinalDataset(raw_matchups, owners_data, order)
    IN  /\ prev_final' = final
        /\ final' = IF built.raised THEN [final EXCEPT !.raised = TRUE]
                     ELSE [exists |-> TRUE, raised |-> FALSE, mapping |-> built.mapping,
                           matchups_final |-> built.matchups_final]
        /\ UNCHANGED <<raw_matchups, owners_data, insights>>

\* create_temporal_dynamics_insights: reads the final dataset, which must exist
CreateTemporalDynamicsInsights ==
    /\ final.exists
    /\ LET result == TemporalDynamicsInsights(final.matchups_final)
       IN  insights' = [done |-> TRUE, raised |-> result.raised,
                        season_averages |-> result.season_averages,
                        bad_beats |-> result.bad_beats,
                        statement_games |-> result.statement_games,
                        kryptonite |-> result.kryptonite]
    /\ UNCHANGED <<raw_matchups, owners_data, final, prev_final>>

\* ------------------------------------------------------------ input pools

T_Al == <<"A", "l">>
T_XBo == <<"X", " ", "(", "B", "o", ")">>
T_NansT == <<"N", "a", "n", "'", "s", " ", "T">>
T_Bang == <<"!", "!">>
T_Seven == <<"7">>

\* Matchup elements of a schedule page: the texts of the team and score
\* sub-elements
ElemPool ==
    { [teams |-> <<T_Al, T_XBo>>, scores |-> <<<<"1", "0", ".", "5">>, <<"9">>>>],
      [teams |-> <<T_XBo, T_Al>>, scores |-> <<<<"7">>, <<"7", " ", "p", "t", "s">>>>],
      [teams |-> <<T_NansT, T_Al>>, scores |-> <<<<"1", "2">>, <<"3">>>>],
      [teams |-> <<T_Bang, T_Al>>, scores |-> <<<<"8">>, <<"2">>>>],
      [teams |-> <<T_Seven, T_Al>>, scores |-> <<<<"1">>, <<"2", ".", "5">>>>],
      [teams |-> <<T_Al, T_XBo>>, scores |-> <<<<"3">>, <<"9">>>>],
      [teams |-> <<T_Al>>, scores |-> <<<<"4">>>>] }

PoolSeason == 2023
PoolWeek == 1

\* Owners as the extractor makes them, with and without an email
OwnerPool ==
    { [owner_id |-> Str(GenerateOwnerId(T_Al)), name |-> Str(T_Al), email |-> None],
      [owner_id |-> Str(GenerateOwnerId(<<"B", "o">>)), name |-> Str(<<"B", "o">>),
       email |-> Str(<<"b", "@", "x">>)] }

\* Season records with no playoff seed, seed 0 and seed 1
SeasonRecordPool ==
    { [owner_id |-> Str(GenerateOwnerId(T_Al)), season |-> PoolSeason, wins |-> 1,
       losses |-> 0, ties |-> 0, points_for |-> 105, points_against |-> 90,
       final_rank |-> 1, playoff_seed |-> seed] : seed \in {NoInt, SomeInt(0), SomeInt(1)} }

\* The matchups the extractor makes of the pool's elements
ParsedPool(elems) ==
    UNION {{m[i] : i \in 1..Len(m)} :
             m \in {ParseMatchupElement(e, PoolSeason, PoolWeek, 0) : e \in elems}}

\* Those of two plain owners for the storage API: decided each way, and tied
MatchupPool ==
    ParsedPool({e \in ElemPool : \A i \in 1..Len(e.teams) : e.teams[i] \in {T_Al, T_XBo}})

HeadToHeadPool ==
    { [owner1_id |-> Str(GenerateOwnerId(T_Al)),
       owner2_id |-> Str(GenerateOwnerId(<<"B", "o">>)),
       owner1_wins |-> 1, owner2_wins |-> 0, owner1_points |-> 105,
       owner2_points |-> 90, total_games |-> 1] }

\* ------------------------------------------------ specification: storage API

PipelineIdle ==
    /\ raw_matchups = <<>>
    /\ owners_data = <<>>
    /\ final = NoFinal
    /\ prev_final = NoFinal
    /\ insights = NoInsights

ScraperIdle ==
    /\ driver = "None"
    /\ wait = "None"
    /\ rate_limit = DefaultRateLimit
    /\ session_cookies = FALSE
    /\ browsers = 0
    /\ init_ret = "none"
    /\ lp = NoLoad
    /\ elapsed = NoTime
    /\ gap = NoTime
    /\ script = IdleScript

Init == StorageInit /\ ScraperIdle /\ PipelineIdle /\ ToolsIdle

Next ==
    /\ \/ \E owners \in ListsUpTo(OwnerPool, MaxLen) : SaveOwners(owners)
       \/ \E matchups \in ListsUpTo(MatchupPool, MaxLen) : SaveMatchups(matchups)
       \/ \E records \in ListsUpTo(SeasonRecordPool, MaxLen) : SaveSeasonRecords(records)
       \/ \E records \in ListsUpTo(HeadToHeadPool, MaxLen) : SaveHeadToHeadRecords(records)
       \/ CalculateHeadToHeadRecords
    /\ UNCHANGED <<scraperVars, pipelineVars, toolVars>>

Spec == Init /\ [][Next]_vars

\* --------------------------------- specification: extraction, then save_all

\* What load_page gave _extract_weekly_matchups: nothing, or a page of elements
Pages ==
    {[ok |-> FALSE, elems |-> <<>>]}
      \cup {[ok |-> TRUE, elems |-> l] : l \in ListsUpTo(ElemPool, MaxLen)}

NextLeague ==
    /\ \/ \E page \in Pages : ExtractWeek(PoolSeason, PoolWeek, page)
       \/ SaveAllData
    /\ UNCHANGED <<scraperVars, pipelineVars, toolVars>>

SpecLeague == Init /\ [][NextLeague]_vars

\* ------------------------------ specification: head-to-head over stored matchups

\* Stored matchups: decided both ways, tied, and with owner IDs read_csv takes for
\* a missing value or a number
StoredPool == ParsedPool({e \in ElemPool : T_Bang \notin {e.teams[i] : i \in 1..Len(e.teams)}})

NextH2H ==
    /\ \/ \E matchups \in ListsUpTo(StoredPool, MaxLen) : SaveMatchups(matchups)
       \/ CalculateHeadToHeadRecords
    /\ UNCHANGED <<scraperVars, pipelineVars, toolVars>>

SpecH2H == Init /\ [][NextH2H]_vars

\* ------------------------------------------- specification: the scraper's API

InitScraper == StorageInit /\ ScraperInit /\ PipelineIdle /\ ToolsIdle

NextScraper ==
    /\ \/ \E fail_at \in InitFailures : InitDriver(fail_at)
       \/ \E url \in Urls, wait_for_element \in BOOLEAN, env \in LoadOutcomes :
            LoadPage(url, wait_for_element, env)
       \/ CloseDriver
    /\ UNCHANGED <<script, storageVars, pipelineVars, toolVars>>

SpecScraper == InitScraper /\ [][NextScraper]_vars

\* --------------------------------------- specification: the owners-data script

\* range(2017, 2025)
FirstYear == 2017
LastYear == 2024

\* time.sleep(2) at the end of every year of the loop
YearSleep == 2

\* extract_owners_data has built its scraper: NFLFantasyScraper(league_id, cookies)
InitOwnersScript ==
    /\ StorageInit /\ PipelineIdle /\ ToolsIdle
    /\ driver = "None"
    /\ wait = "None"
    /\ rate_limit \in RateLimits
    /\ session_cookies = TRUE
    /\ browsers = 0
    /\ init_ret = "none"
    /\ lp = NoLoad
    /\ elapsed = NoTime
    /\ gap = NoTime
    /\ script = [pc |-> "start", year |-> FirstYear, found |-> FALSE, result |-> "none"]

\* `if not scraper.init_driver(headless=True): return False`, ahead of the try
ScriptInitDriver ==
    /\ script.pc = "start"
    /\ \E fail_at \in InitFailures : InitDriver(fail_at)
    /\ script' = IF init_ret' = "True" THEN [script EXCEPT !.pc = "load"]
                 ELSE [script EXCEPT !.pc = "returned", !.result = "False"]

\* soup = scraper.load_page(owners_url)
ScriptLoadPage ==
    /\ script.pc = "load"
    /\ \E env \in LoadOutcomes : LoadPage("owners", FALSE, env)
    /\ script' = [script EXCEPT !.pc = "extract"]

\* The rest of one year of the loop: extract_owners_from_page on a loaded page
\* gives owners, nothing, or raises; then the sleep
ScriptExtract(page) ==
    /\ script.pc = "extract"
    /\ lp.status # "soup" => page = "empty"
    /\ script' =
         IF page = "raises" THEN [script EXCEPT !.pc = "finally", !.result = "False"]
         ELSE [script EXCEPT
                 !.found = @ \/ page = "owners",
                 !.year = IF @ = LastYear THEN @ ELSE @ + 1,
                 !.pc = IF script.year = LastYear THEN "save" ELSE "load"]
    /\ elapsed' = IF page = "raises" \/ elapsed = NoTime THEN elapsed
                  ELSE elapsed + YearSleep
    /\ UNCHANGED <<driver, wait, rate_limit, session_cookies, browsers, init_ret, lp, gap>>

\* After the loop: the CSV files are written when anything was found (the writing
\* can raise), and the function's result is set
ScriptSave(written) ==
    /\ script.pc = "save"
    /\ ~script.found => written
    /\ script' = [script EXCEPT
                    !.pc = "finally",
                    !.result = IF script.found /\ written THEN "True" ELSE "False"]
    /\ UNCHANGED <<driver, wait, rate_limit, session_cookies, browsers, init_ret, lp,
                   elapsed, gap>>

\* finally: scraper.close_driver()
ScriptFinally ==
    /\ script.pc = "finally"
    /\ CloseDriver
    /\ script' = [script EXCEPT !.pc = "returned"]

NextOwnersScript ==
    /\ \/ ScriptInitDriver
       \/ ScriptLoadPage
       \/ \E page \in {"owners", "empty", "raises"} : ScriptExtract(page)
       \/ \E written \in BOOLEAN : ScriptSave(written)
       \/ ScriptFinally
    /\ UNCHANGED <<storageVars, pipelineVars, toolVars>>

SpecOwnersScript == InitOwnersScript /\ [][NextOwnersScript]_vars

\* ------------------------------------------ specification: the script pipeline

Tm_A_b == <<"A", " ", "b">>
Tm_Ab == <<"A", "b">>
Tm_Adashb == <<"A", "-", "b">>
Tm_Nu == <<"N", "u">>
Tm_Xox == <<"X", "o", " ", "x">>

\* Rows of the owners CSV: two spellings of one team under two managers, a manager
\* outside the active roster, and a waiver row
OwnerRowPool ==
    { [year |-> 2023, team_name |-> Tm_A_b, manager_name |-> Billy],
      [year |-> 2024, team_name |-> Tm_Ab, manager_name |-> Phoenix],
      [year |-> 2023, team_name |-> Tm_Nu, manager_name |-> Daniel],
      [year |-> 2023, team_name |-> Tm_Xox, manager_name |-> Waiver] }

\* Rows of the raw matchup CSV, scores in tenths: a tie has no winner, and the
\* last row's team1 cell is one read_csv takes for a missing value (empty, "NA",
\* "N/A", "null", ...)
MatchupRowPool ==
    { [season |-> 2023, week |-> 1, team1 |-> Tm_Adashb, team2 |-> Tm_Ab,
       team1_score |-> 1800, team2_score |-> 1900, winner |-> Tm_Ab, playoff |-> FALSE],
      [season |-> 2023, week |-> 2, team1 |-> Tm_Ab, team2 |-> Tm_Nu,
       team1_score |-> 500, team2_score |-> 600, winner |-> Tm_Nu, playoff |-> FALSE],
      [season |-> 2024, week |-> 1, team1 |-> Tm_Xox, team2 |-> Tm_Adashb,
       team1_score |-> 1000, team2_score |-> 1000, winner |-> Missing, playoff |-> TRUE],
      [season |-> 2024, week |-> 2, team1 |-> Missing, team2 |-> Tm_Ab,
       team1_score |-> 700, team2_score |-> 800, winner |-> Tm_Ab, playoff |-> FALSE] }

\* The frames of at most n rows of S, no row twice
FramesUpTo(S, n) ==
    {rows \in ListsUpTo(S, n) : \A i, j \in 1..Len(rows) : rows[i] = rows[j] => i = j}

InitPipeline ==
    /\ StorageInit /\ ScraperIdle /\ ToolsIdle
    /\ raw_matchups \in FramesUpTo(MatchupRowPool, MaxRows)
    /\ owners_data \in FramesUpTo(OwnerRowPool, MaxRows)
    /\ final = NoFinal
    /\ prev_final = NoFinal
    /\ insights = NoInsights

NextPipeline ==
    /\ \/ \E order \in Orders(MatchupTeams(raw_matchups)) : CreateFinalDataset(order)
       \/ CreateTemporalDynamicsInsights
    /\ UNCHANGED <<storageVars, scraperVars, toolVars>>

SpecPipeline == InitPipeline /\ [][NextPipeline]_vars

\* ------------------------------- specification: the final-dataset builder, rerun

NextMatching ==
    /\ \E order \in Orders(MatchupTeams(raw_matchups)) : CreateFinalDataset(order)
    /\ UNCHANGED <<storageVars, scraperVars, toolVars>>

SpecMatching == InitPipeline /\ [][NextMatching]_vars

\* ====================================================================== claims

\* What a load returns once `items` has been saved into an empty data directory
FreshOwners(items) == LoadOwners(WriteFile(NoFile, items, OwnerRows(items)))
FreshMatchups(items) == LoadMatchups(WriteFile(NoFile, items, MatchupRows(items)))
FreshSeasonRecords(items) ==
    LoadSeasonRecords(WriteFile(NoFile, items, SeasonRecordRows(items)))
FreshHeadToHead(items) ==
    LoadHeadToHeadRecords(WriteFile(NoFile, items, HeadToHeadRows(items)))

\* C1: after any sequence of saves, each load returns the list passed to the most
\* recent save of its entity type, the empty list included (every save replaces
\* the file's previous content), and after calculate_head_to_head_records the
\* stored head-to-head records are the records it returned.  The list is taken
\* as the CSV encoding renders it (what a load gives after saving the same list
\* into an empty directory), so that the statement is about the replacement of
\* the previous content alone; the claim as worded implies it.
C1_LoadReturnsLastSave ==
    /\ lastSaved.owners # <<>> =>
         LoadOwners(files.owners) = FreshOwners(lastSaved.owners[1])
    /\ lastSaved.matchups # <<>> =>
         LoadMatchups(files.matchups) = FreshMatchups(lastSaved.matchups[1])
    /\ lastSaved.season_records # <<>> =>
         LoadSeasonRecords(files.season_records)
           = FreshSeasonRecords(lastSaved.season_records[1])
    /\ lastSaved.head_to_head # <<>> =>
         LoadHeadToHeadRecords(files.head_to_head)
           = FreshHeadToHead(lastSaved.head_to_head[1])
    /\ (ret.op = "calculate_head_to_head_records" /\ ~ret.raised) =>
         LoadHeadToHeadRecords(files.head_to_head) = FreshHeadToHead(ret.records)

\* C2: a non-empty list of Owners, Matchups or SeasonRecords that was saved is
\* loaded back equal to the original, field by field and in the same order:
\* present optional fields with their value, absent ones absent.
C2_RoundTrip ==
    /\ (lastSaved.owners # <<>> /\ lastSaved.owners # <<<<>>>>) =>
         LoadOwners(files.owners) = lastSaved.owners[1]
    /\ (lastSaved.matchups # <<>> /\ lastSaved.matchups # <<<<>>>>) =>
         LoadMatchups(files.matchups) = lastSaved.matchups[1]
    /\ (lastSaved.season_records # <<>> /\ lastSaved.season_records # <<<<>>>>) =>
         LoadSeasonRecords(files.season_records) = lastSaved.season_records[1]

\* The winner of a matchup as its scores decide it
WinnerRule(m) ==
    IF m.team1_score > m.team2_score THEN m.winner_owner_id = m.team1_owner_id
    ELSE IF m.team2_score > m.team1_score THEN m.winner_owner_id = m.team2_owner_id
    ELSE m.winner_owner_id = None

AllOf(q, P(_)) == \A i \in 1..Len(q) : P(q[i])

\* C3: every matchup the weekly extraction produced, in memory and as loaded back
\* from the CSV it was saved to, has the owner of the strictly higher score as
\* winner_owner_id, and no winner when the scores are equal.
C3_WinnerFollowsScores ==
    /\ AllOf(league_data.matchups, WinnerRule)
    /\ AllOf(LoadMatchups(files.matchups), WinnerRule)

\* C4: every record calculate_head_to_head_records returns has owner1_wins +
\* owner2_wins <= total_games, and in the tallies behind the records the points
\* of A against B are the points against in B's tally versus A, and vice versa.
C4_HeadToHeadSymmetry ==
    ret.op = "calculate_head_to_head_records" =>
        /\ \A i \in 1..Len(ret.records) :
             ret.records[i].owner1_wins + ret.records[i].owner2_wins
               <= ret.records[i].total_games
        /\ \A i \in 1..Len(ret.stats) :
             LET mine == ret.stats[i]
                 theirs == StatsOf(ret.stats, <<mine.key[2], mine.key[1]>>)
             IN  /\ mine.points_for = theirs.points_against
                 /\ mine.points_against = theirs.points_for

\* C4's case: two owners who each won a game against the other
C4_Witness ==
    /\ ret.op = "calculate_head_to_head_records"
    /\ \E i \in 1..Len(ret.records) :
         /\ ret.records[i].owner1_wins >= 1
         /\ ret.records[i].owner2_wins >= 1
         /\ ret.records[i].owner1_id # ret.records[i].owner2_id
         /\ ret.records[i].owner1_points # ret.records[i].owner2_points

FracEq(a, b) == a.sum * b.n = b.sum * a.n

\* C5: the season average the bad-beats analysis uses is the average over all
\* matchups of that season in the final dataset, those with a manager outside
\* the active roster included, while the bad-beat entries are of matchups between
\* two active managers.
C5_SeasonAverageOverAllMatchups ==
    insights.done =>
        /\ \A season \in DOMAIN insights.season_averages :
             FracEq(insights.season_averages[season],
                    SeasonAverage(final.matchups_final, season))
        /\ \A i \in 1..Len(insights.bad_beats) :
             /\ insights.bad_beats[i].manager \in ActiveManagers
             /\ insights.bad_beats[i].opponent \in ActiveManagers

\* C6: when the owners-data script has returned, on whichever path, the browser
\* session it launched is released: no browser is alive and the scraper holds no
\* driver.
C6_BrowserReleased ==
    script.pc = "returned" => (browsers = 0 /\ driver = "None")

\* C7: a load_page call never raises: it returns the document, or the absent
\* value on every failure, and leaves the scraper's fields as they were, so a
\* later call behaves as if the failure had not happened.
C7_LoadPageNeverRaises ==
    [][(\E url \in Urls \cup {"owners"}, wait_for_element \in BOOLEAN, env \in LoadOutcomes :
            LoadPage(url, wait_for_element, env))
        => /\ lp'.status \in {"soup", "None"}
           /\ lp'.exception # "none" => lp'.status = "None"
           /\ UNCHANGED <<driver, wait, rate_limit, session_cookies, browsers>>]_vars

\* C7's case: a load that succeeded on a scraper whose earlier load had failed
C7_Witness ==
    lp.after_failure /\ lp.status = "soup" /\ lp.exception = "none"

\* C8: every load_page call that navigates sleeps the rate-limit interval before
\* it returns, however the load ended, so two consecutive navigations are at least
\* the rate-limit interval apart.
C8_RateLimitAfterEveryLoad ==
    /\ lp.navigated => lp.rate_slept
    /\ gap # NoTime => gap >= rate_limit

\* The owners rows a matchup team name matches
MatchingOwnerRows(team) ==
    {i \in 1..Len(owners_data) :
        /\ owners_data[i].manager_name # Waiver
        /\ FuzzyMatch(NormalizeTeamName(team), NormalizeTeamName(owners_data[i].team_name))}

ManagerOfTeam(team, manager) ==
    IF MatchingOwnerRows(team) = {}
    THEN manager = UnknownPrefix \o Replace(team, <<" ">>, <<"_">>)
    ELSE \E i \in MatchingOwnerRows(team) : manager = owners_data[i].manager_name

\* C9: a run of the final-dataset builder writes a dataset (no row is dropped)
\* that has one row per raw matchup row, in the same order and with the raw
\* columns kept; manager1 and manager2 are the manager mapped from the row's team
\* name or, without a match, "Unknown_" and the team name with underscores for
\* spaces; no manager field is "Waiver".
C9_RowsKeptAndLabelled ==
    /\ ~final.raised
    /\ final.exists =>
        /\ Len(final.matchups_final) = Len(raw_matchups)
        /\ \A i \in 1..Len(raw_matchups) :
             LET out == final.matchups_final[i]
                 raw == raw_matchups[i]
             IN  /\ [f \in DOMAIN raw |-> out[f]] = raw
                 /\ ManagerOfTeam(raw.team1, out.manager1)
                 /\ ManagerOfTeam(raw.team2, out.manager2)
                 /\ out.manager1 # Waiver
                 /\ out.manager2 # Waiver

SetOfSeq(q) == {q[i] : i \in 1..Len(q)}

UnknownLabels(f) ==
    {m \in {f.matchups_final[i].manager1 : i \in 1..Len(f.matchups_final)}
             \cup {f.matchups_final[i].manager2 : i \in 1..Len(f.matchups_final)} :
        Len(m) >= Len(UnknownPrefix) /\ SubSeq(m, 1, Len(UnknownPrefix)) = UnknownPrefix}

\* C10: two builds from the same owners CSV and raw matchup CSV give the same
\* matchup team -> owners team -> manager mapping and the same "Unknown_" labels,
\* whatever the order in which each iterated the set of matchup team names.
C10_BuildIsOrderIndependent ==
    /\ (prev_final.exists \/ prev_final.raised) => final.raised = prev_final.raised
    /\ (final.exists /\ prev_final.exists) =>
        /\ SetOfSeq(final.mapping) = SetOfSeq(prev_final.mapping)
        /\ Len(final.mapping) = Len(prev_final.mapping)
        /\ UnknownLabels(final) = UnknownLabels(prev_final)
        /\ final.matchups_final = prev_final.matchups_final

\* C10's case: two builds that iterated the team names in different orders (their
\* mapping files list the same rows in different order), with an unknown team
C10_Witness ==
    /\ final.exists /\ prev_final.exists
    /\ final.mapping # prev_final.mapping
    /\ UnknownLabels(final) # {}

\* ============================================== extractor: text helpers, applied

\* str.split(sep) for a one-character sep: the parts between the separators
RECURSIVE SplitOn(_, _, _, _)
SplitOn(s, sep, cur, acc) ==
    IF s = <<>> THEN Append(acc, cur)
    ELSE IF Head(s) = sep THEN SplitOn(Tail(s), sep, <<>>, Append(acc, cur))
    ELSE SplitOn(Tail(s), sep, Append(cur, Head(s)), acc)

\* int(text) for a text without underscores: <<n>>, or <<>> for ValueError.
\* Surrounding whitespace and one sign are accepted
PyInt(text) ==
    LET t == Strip(text)
        signed == t # <<>> /\ Head(t) \in {"+", "-"}
        digits == IF signed THEN Tail(t) ELSE t
    IN  IF digits = <<>> \/ \E i \in 1..Len(digits) : digits[i] \notin Digits THEN <<>>
        ELSE IF signed /\ Head(t) = "-" THEN <<0 - TextToNat(digits)>>
        ELSE <<TextToNat(digits)>>

\* FantasyDataExtractor._parse_record
ParseRecord(record_str) ==
    LET parts == SplitOn(record_str, "-", <<>>, <<>>)
        wins == PyInt(parts[1])
        losses == IF Len(parts) > 1 THEN PyInt(parts[2]) ELSE <<0>>
        ties == IF Len(parts) > 2 THEN PyInt(parts[3]) ELSE <<0>>
    IN  IF wins = <<>> \/ losses = <<>> \/ ties = <<>> THEN <<0, 0, 0>>
        ELSE <<wins[1], losses[1], ties[1]>>

MaxNameLen == 4
MaxRecordLen == 6

\* Characters of owner display names: letters, a digit, whitespace, punctuation
NameAlphabet == {"A", "b", "7", " ", "&", "_"}

\* Characters of record strings
RecordAlphabet == {"1", "4", "-", "x"}

\* self._generate_owner_id(owner_name)
GenerateOwnerIdCall ==
    /\ call.op = "_generate_owner_id"
    /\ call' = [call EXCEPT !.done = TRUE, !.value = GenerateOwnerId(call.arg)]

\* self._parse_record(record)
ParseRecordCall ==
    /\ call.op = "_parse_record"
    /\ call' = [call EXCEPT !.done = TRUE, !.value = ParseRecord(call.arg)]

\* ------------------------------ specification: the extractor's text helpers

InitExtractorText ==
    /\ StorageInit /\ ScraperIdle /\ PipelineIdle
    /\ h2h_analysis = NoAnalysis /\ ScriptsIdle
    /\ \/ \E owner_name \in ListsUpTo(NameAlphabet, MaxNameLen) :
            call = [NoCall EXCEPT !.op = "_generate_owner_id", !.arg = owner_name]
       \/ \E record_str \in ListsUpTo(RecordAlphabet, MaxRecordLen) :
            call = [NoCall EXCEPT !.op = "_parse_record", !.arg = record_str]

NextExtractorText ==
    /\ \/ GenerateOwnerIdCall
       \/ ParseRecordCall
    /\ UNCHANGED <<storageVars, scraperVars, pipelineVars, h2h_analysis, fs, site, proc, table, extraction>>

SpecExtractorText == InitExtractorText /\ [][NextExtractorText]_vars

\* ------------------------------------------------------------------ claims

\* The letters and digits of a name in lower case, with one underscore between
\* two of them that have whitespace somewhere between them in the name
RECURSIVE KeptJoined(_, _, _, _)
KeptJoined(name, i, out, spaced) ==
    IF i > Len(name) THEN out
    ELSE IF IsAlnum(name[i])
         THEN KeptJoined(name, i + 1,
                         out \o (IF spaced /\ out # <<>> THEN <<"_">> ELSE <<>>)
                             \o <<Lower(name[i])>>,
                         FALSE)
         ELSE KeptJoined(name, i + 1, out, spaced \/ IsSpace(name[i]))

IdCharacters(id) == \A i \in 1..Len(id) : id[i] \in LowerCase \cup Digits \cup {"_"}

WhitespaceRuns(name) ==
    Cardinality({i \in 1..Len(name) :
                    IsSpace(name[i]) /\ (i = 1 \/ ~IsSpace(name[i - 1]))})

Underscores(id) == Cardinality({i \in 1..Len(id) : id[i] = "_"})

\* C11 (as amended): the owner ID is a function of the display name; it is
\* lowercase, contains only letters, digits and underscores, and has exactly one
\* underscore between two consecutive kept letters or digits that whitespace
\* separates in the name, and none elsewhere: whitespace at either end of the name,
\* or next to another whitespace run once the punctuation between them is
\* removed, gives no underscore of its own.
C11_IdJoinsKeptWords ==
    (call.op = "_generate_owner_id" /\ call.done) =>
        /\ IdCharacters(call.value)
        /\ call.value = KeptJoined(call.arg, 1, <<>>, FALSE)

\* C11's case: a name with an upper-case letter, punctuation and whitespace whose
\* ID has an underscore
C11_Witness ==
    /\ call.op = "_generate_owner_id" /\ call.done
    /\ Underscores(call.value) = 1
    /\ \E i \in 1..Len(call.arg) : call.arg[i] = "&"
    /\ \E i \in 1..Len(call.arg) : call.arg[i] = "A"

\* C11 as the claim words it: the ID is lowercase, of letters, digits and
\* underscores, with exactly one underscore for each whitespace run of the name
C11_UnderscorePerWhitespaceRun ==
    (call.op = "_generate_owner_id" /\ call.done) =>
        /\ IdCharacters(call.value)
        /\ Underscores(call.value) = WhitespaceRuns(call.arg)

IsIntegerPart(part) == part # <<>> /\ \A i \in 1..Len(part) : part[i] \in Digits

\* C12: _parse_record never raises; one to three hyphen-separated integers give
\* those integers as (wins, losses, ties) with 0 for the missing ones, and the
\* empty string or a string with a non-numeric part gives (0, 0, 0).
C12_ParseRecordTotal ==
    (call.op = "_parse_record" /\ call.done) =>
        LET parts == SplitOn(call.arg, "-", <<>>, <<>>)
            malformed == \E i \in 1..Len(parts) : ~IsIntegerPart(parts[i])
        IN  /\ ~call.raised
            /\ (~malformed /\ Len(parts) <= 3) =>
                 call.value = <<TextToNat(parts[1]),
                                IF Len(parts) > 1 THEN TextToNat(parts[2]) ELSE 0,
                                IF Len(parts) > 2 THEN TextToNat(parts[3]) ELSE 0>>
            /\ malformed => call.value = <<0, 0, 0>>

\* ===================================================== analytics over stored data

\* {owner.owner_id: owner.name for owner in owners}
RECURSIVE OwnerNames(_, _)
OwnerNames(d, owners) ==
    IF owners = <<>> THEN d
    ELSE OwnerNames(DictSet(d, Head(owners).owner_id, Head(owners).name), Tail(owners))

\* owner_names.get(owner_id, default)
NameOr(owner_names, owner_id, default) ==
    IF DictHas(owner_names, owner_id) THEN DictGet(owner_names, owner_id) ELSE default

\* round(n / d, 0) of Python for n >= 0 and d > 0: to the nearest, a half to even
RoundHalfEven(n, d) ==
    LET f == n \div d
        r == n % d
    IN  IF 2 * r > d \/ (2 * r = d /\ f % 2 = 1) THEN f + 1 ELSE f

\* owner_totals of get_owner_win_percentages: wins, losses and ties by owner_id
RECURSIVE OwnerTotals(_, _)
OwnerTotals(d, season_records) ==
    IF season_records = <<>> THEN d
    ELSE LET record == Head(season_records)
             old == IF DictHas(d, record.owner_id) THEN DictGet(d, record.owner_id)
                    ELSE [wins |-> 0, losses |-> 0, ties |-> 0]
         IN  OwnerTotals(DictSet(d, record.owner_id,
                                 [wins |-> old.wins + record.wins,
                                  losses |-> old.losses + record.losses,
                                  ties |-> old.ties + record.ties]),
                         Tail(season_records))

\* One owner's percentage in tenths: round((wins + ties * 0.5) / total * 100, 1)
WinPercentage(totals) ==
    RoundHalfEven(1000 * (2 * totals.wins + totals.ties),
                  2 * (totals.wins + totals.losses + totals.ties))

\* The loop with every owner of owner_totals reported, 0.0 for one without games
RECURSIVE WinPercentagesUnguarded(_, _, _)
WinPercentagesUnguarded(win_percentages, owner_totals, owner_names) ==
    IF owner_totals = <<>> THEN win_percentages
    ELSE LET owner_id == Head(owner_totals).key
             totals == Head(owner_totals).value
             total_games == totals.wins + totals.losses + totals.ties
         IN  WinPercentagesUnguarded(
                 DictSet(win_percentages, NameOr(owner_names, owner_id, owner_id),
                         IF total_games > 0 THEN WinPercentage(totals) ELSE 0),
                 Tail(owner_totals), owner_names)

\* The loop of get_owner_win_percentages over owner_totals.items()
RECURSIVE WinPercentages(_, _, _)
WinPercentages(win_percentages, owner_totals, owner_names) ==
    IF owner_totals = <<>> THEN win_percentages
    ELSE LET owner_id == Head(owner_totals).key
             totals == Head(owner_totals).value
             total_games == totals.wins + totals.losses + totals.ties
         IN  WinPercentages(
                 IF total_games > 0
                 THEN DictSet(win_percentages, NameOr(owner_names, owner_id, owner_id),
                              WinPercentage(totals))
                 ELSE win_percentages,
                 Tail(owner_totals), owner_names)

\* FantasyAnalytics.get_owner_win_percentages: the percentages are in tenths
GetOwnerWinPercentages ==
    LET owner_totals == OwnerTotals(<<>>, LoadSeasonRecords(files.season_records))
        owner_names == OwnerNames(<<>>, LoadOwners(files.owners))
    IN  /\ ret' = [op |-> "get_owner_win_percentages", raised |-> FALSE,
                   stats |-> owner_totals,
                   records |-> WinPercentages(<<>>, owner_totals, owner_names)]
        /\ UNCHANGED <<files, lastSaved, league_data>>

\* The most entities of a kind that an analytics run finds stored
MaxStored == 2

\* Standings of two known owners and one without an owners.csv row: no games,
\* wins and losses, and a tie
StandingsPool ==
    { [owner_id |-> Str(id), season |-> PoolSeason, wins |-> wlt[1], losses |-> wlt[2],
       ties |-> wlt[3], points_for |-> 105, points_against |-> 90,
       final_rank |-> 1 + wlt[2], playoff_seed |-> NoInt] :
        <<id, wlt>> \in {<<<<"a", "l">>, <<0, 0, 0>>>>, <<<<"a", "l">>, <<1, 2, 0>>>>,
                         <<<<"a", "l">>, <<1, 0, 1>>>>, <<<<"b", "o">>, <<0, 0, 0>>>>,
                         <<<<"b", "o">>, <<0, 1, 0>>>>, <<<<"z", "e", "d">>, <<2, 1, 0>>>>} }

NextWinPct ==
    /\ \/ \E owners \in ListsUpTo(OwnerPool, MaxStored) : SaveOwners(owners)
       \/ \E records \in ListsUpTo(StandingsPool, MaxStored) : SaveSeasonRecords(records)
       \/ GetOwnerWinPercentages
    /\ UNCHANGED <<scraperVars, pipelineVars, toolVars>>

SpecWinPct == Init /\ [][NextWinPct]_vars

\* The season records of the file, and one owner's sum of a field over them
StoredStandings == LoadSeasonRecords(files.season_records)

StoredSum(owner_id, Field(_)) ==
    SumSeq([i \in 1..Len(StoredStandings) |->
               IF StoredStandings[i].owner_id = owner_id THEN Field(StoredStandings[i])
               ELSE 0])

StoredGames(owner_id) ==
    StoredSum(owner_id, LAMBDA r : r.wins + r.losses + r.ties)

\* The name an owner is reported under: the owners.csv name, else the owner ID
ReportedName(owner_id) ==
    LET owners == LoadOwners(files.owners)
    IN  IF \E i \in 1..Len(owners) : owners[i].owner_id = owner_id
        THEN (CHOOSE o \in {owners[i] : i \in 1..Len(owners)} : o.owner_id = owner_id).name
        ELSE owner_id

StoredOwnerIds == {StoredStandings[i].owner_id : i \in 1..Len(StoredStandings)}

\* C13 (amended): get_owner_win_percentages reports exactly the owners whose wins +
\* losses + ties over all season records is above zero, each once, and each value is
\* (wins + 0.5 x ties) / total games x 100 rounded to one decimal.
C13_WinPercentageOfOwnersWithGames ==
    ret.op = "get_owner_win_percentages" =>
        /\ ~ret.raised
        /\ {ret.records[i].key : i \in 1..Len(ret.records)}
             = {ReportedName(id) : id \in {o \in StoredOwnerIds : StoredGames(o) > 0}}
        /\ \A i, j \in 1..Len(ret.records) :
             ret.records[i].key = ret.records[j].key => i = j
        /\ \A id \in StoredOwnerIds : \A i \in 1..Len(ret.records) :
             (StoredGames(id) > 0 /\ ret.records[i].key = ReportedName(id)) =>
                LET n == 1000 * (2 * StoredSum(id, LAMBDA r : r.wins)
                                   + StoredSum(id, LAMBDA r : r.ties))
                    d == 2 * StoredGames(id)
                    v == ret.records[i].value
                IN  (2 * v - 1) * d <= 2 * n /\ 2 * n <= (2 * v + 1) * d

\* C13's case: an owner with season records but no games is left out, next to an
\* owner whose percentage had to be rounded
C13_Witness ==
    /\ ret.op = "get_owner_win_percentages"
    /\ \E id \in StoredOwnerIds : StoredGames(id) = 0
    /\ \E i \in 1..Len(ret.records) : ret.records[i].value = 333

\* C13 as the claim words it: only owners with games appear, and every value
\* equals (wins + 0.5 x ties) / total games x 100
C13_ExactWinPercentage ==
    ret.op = "get_owner_win_percentages" =>
        /\ \A id \in StoredOwnerIds :
             StoredGames(id) = 0 =>
                \A i \in 1..Len(ret.records) : ret.records[i].key # ReportedName(id)
        /\ \A id \in StoredOwnerIds : \A i \in 1..Len(ret.records) :
             (StoredGames(id) > 0 /\ ret.records[i].key = ReportedName(id)) =>
                ret.records[i].value * 2 * StoredGames(id)
                  = 1000 * (2 * StoredSum(id, LAMBDA r : r.wins)
                              + StoredSum(id, LAMBDA r : r.ties))

\* ------------------------------------------------------------ rivalry analysis

\* The score with win_diff taken without abs()
CompetitivenessSigned(record) ==
    LET total_wins == record.owner1_wins + record.owner2_wins
        win_diff == record.owner1_wins - record.owner2_wins
    IN  IF total_wins > 0
        THEN RoundHalfEven(1000 * (total_wins - win_diff), total_wins)
        ELSE 0

\* round(1 - win_diff / total_wins if total_wins > 0 else 0, 3), in thousandths
Competitiveness(record) ==
    LET total_wins == record.owner1_wins + record.owner2_wins
        win_diff == IF record.owner1_wins >= record.owner2_wins
                    THEN record.owner1_wins - record.owner2_wins
                    ELSE record.owner2_wins - record.owner1_wins
    IN  IF total_wins > 0
        THEN RoundHalfEven(1000 * (total_wins - win_diff), total_wins)
        ELSE 0

\* The rivalry dict of one head-to-head record; avg_points_diff is in tenths
Rivalry(record, owner_names) ==
    [owner1 |-> NameOr(owner_names, record.owner1_id, record.owner1_id),
     owner2 |-> NameOr(owner_names, record.owner2_id, record.owner2_id),
     total_games |-> record.total_games,
     owner1_wins |-> record.owner1_wins,
     owner2_wins |-> record.owner2_wins,
     competitiveness_score |-> Competitiveness(record),
     avg_points_diff |->
         IF record.total_games > 0
         THEN RoundHalfEven(IF record.owner1_points >= record.owner2_points
                            THEN record.owner1_points - record.owner2_points
                            ELSE record.owner2_points - record.owner1_points,
                            record.total_games)
         ELSE 0,
     series_leader |->
         NameOr(owner_names,
                IF record.owner1_wins > record.owner2_wins THEN record.owner1_id
                ELSE record.owner2_id,
                Str(<<"T", "i", "e", "d">>))]

\* rivalries.sort(key=competitiveness_score, reverse=True): stable, so a rivalry
\* goes behind those already placed whose score is not lower
RECURSIVE SortRivalries(_, _)
SortRivalries(sorted, rest) ==
    IF rest = <<>> THEN sorted
    ELSE LET e == Head(rest)
             before == SelectSeq(sorted, LAMBDA r :
                                   r.competitiveness_score >= e.competitiveness_score)
             after == SelectSeq(sorted, LAMBDA r :
                                  r.competitiveness_score < e.competitiveness_score)
         IN  SortRivalries(before \o <<e>> \o after, Tail(rest))

\* FantasyAnalytics.get_rivalry_analysis(min_games)
GetRivalryAnalysis(min_games) ==
    LET h2h_records == LoadHeadToHeadRecords(files.head_to_head)
        owner_names == OwnerNames(<<>>, LoadOwners(files.owners))
        qualifying == SelectSeq(h2h_records, LAMBDA record : record.total_games >= min_games)
        rivalries == [i \in 1..Len(qualifying) |-> Rivalry(qualifying[i], owner_names)]
    IN  /\ ret' = [op |-> "get_rivalry_analysis", raised |-> FALSE,
                   stats |-> <<min_games>>,
                   records |-> SortRivalries(<<>>, rivalries)]
        /\ UNCHANGED <<files, lastSaved, league_data>>

\* The default min_games
DefaultMinGames == 5

\* Head-to-head records of one pair: level, lopsided either way, one-sided either
\* way, and one below the default min_games
RivalryPool ==
    { [owner1_id |-> Str(GenerateOwnerId(T_Al)),
       owner2_id |-> Str(GenerateOwnerId(<<"B", "o">>)),
       owner1_wins |-> w[1], owner2_wins |-> w[2], owner1_points |-> 105 * (w[1] + w[2]),
       owner2_points |-> 90 * (w[1] + w[2]), total_games |-> w[1] + w[2]] :
        w \in {<<3, 3>>, <<5, 0>>, <<0, 5>>, <<4, 1>>, <<2, 5>>, <<2, 1>>} }

NextRivalry ==
    /\ \/ \E owners \in ListsUpTo(OwnerPool, MaxStored) : SaveOwners(owners)
       \/ \E records \in ListsUpTo(RivalryPool, MaxStored) : SaveHeadToHeadRecords(records)
       \/ \E min_games \in {1, DefaultMinGames} : GetRivalryAnalysis(min_games)
    /\ UNCHANGED <<scraperVars, pipelineVars, toolVars>>

SpecRivalry == Init /\ [][NextRivalry]_vars

RECURSIVE H2HRecords(_, _)
H2HRecords(h2h_records, rows) ==
    IF rows = <<>> THEN h2h_records
    ELSE LET row == Head(rows)
             key1 == <<row.manager1, row.manager2>>
             key2 == <<row.manager2, row.manager1>>
             won1 == IF row.winning_manager = row.manager1 THEN 1 ELSE 0
             won2 == IF won1 = 0 /\ row.winning_manager = row.manager2 THEN 1 ELSE 0
             \* the entry of the winner's side is made first, else that of key1
             made == IF won2 = 1
                     THEN AddStat(AddStat(h2h_records, key2, "wins", 0), key1, "wins", 0)
                     ELSE AddStat(AddStat(h2h_records, key1, "wins", 0), key2, "wins", 0)
             updated ==
                 [i \in 1..Len(made) |->
                     IF made[i].key = key1
                     THEN [made[i] EXCEPT !.wins = @ + won1, !.losses = @ + won2,
                                          !.points_for = @ + row.team1_score,
                                          !.points_against = @ + row.team2_score,
                                          !.games = @ + 1]
                     ELSE IF made[i].key = key2
                     THEN [made[i] EXCEPT !.wins = @ + won2, !.losses = @ + won1,
                                          !.points_for = @ + row.team2_score,
                                          !.points_against = @ + row.team1_score,
                                          !.games = @ + 1]
                     ELSE made[i]]
         IN  IF row.manager1 = row.manager2 THEN H2HRecords(h2h_records, Tail(rows))
             ELSE H2HRecords(updated, Tail(rows))

\* `for manager1 in h2h_records: for manager2, record in h2h_records[manager1]`:
\* the entries by manager1 in the order the managers were first met
RECURSIVE NestedOrder(_)
NestedOrder(h2h_records) ==
    IF h2h_records = <<>> THEN <<>>
    ELSE LET manager1 == Head(h2h_records).key[1]
         IN  SelectSeq(h2h_records, LAMBDA r : r.key[1] = manager1)
               \o NestedOrder(SelectSeq(h2h_records, LAMBDA r : r.key[1] # manager1))

\* games >= 5 and wins >= losses * 2
IsDominant(record) == record.games >= 5 /\ record.wins >= record.losses * 2

\* dominant_records.sort(key=(win_pct, wins), reverse=True) is stable.
\* (win_pct, wins) of r is not below that of e
KeyNotBelow(r, e) ==
    \/ r.win_pct.sum * e.win_pct.n > e.win_pct.sum * r.win_pct.n
    \/ /\ r.win_pct.sum * e.win_pct.n = e.win_pct.sum * r.win_pct.n
       /\ r.wins >= e.wins

RECURSIVE SortDominant(_, _)
SortDominant(sorted, rest) ==
    IF rest = <<>> THEN sorted
    ELSE LET e == Head(rest)
             before == SelectSeq(sorted, LAMBDA r : KeyNotBelow(r, e))
             after == SelectSeq(sorted, LAMBDA r : ~KeyNotBelow(r, e))
         IN  SortDominant(before \o <<e>> \o after, Tail(rest))

\* dominant_records of create_h2h_analysis; win_pct is wins / games * 100, kept
\* as the fraction
DominantRecords(h2h_records) ==
    LET passing == SelectSeq(NestedOrder(h2h_records), IsDominant)
    IN  SortDominant(<<>>,
                     [i \in 1..Len(passing) |->
                         [manager1 |-> passing[i].key[1], manager2 |-> passing[i].key[2],
                          wins |-> passing[i].wins, losses |-> passing[i].losses,
                          win_pct |-> [sum |-> 100 * passing[i].wins, n |-> passing[i].games],
                          games |-> passing[i].games]])

\* sum(h2h_records[manager][opp][field] for opp in h2h_records[manager])
TotalOf(h2h_records, manager, field) ==
    LET entries == SelectSeq(h2h_records, LAMBDA r : r.key[1] = manager)
    IN  SumSeq([i \in 1..Len(entries) |-> entries[i][field]])

\* overall_records of create_h2h_analysis: the totals of every active manager;
\* win_pct and the averages, quotients of these totals, are left as their terms
OverallRecords(h2h_records) ==
    [manager \in ActiveManagers |->
        [wins |-> TotalOf(h2h_records, manager, "wins"),
         losses |-> TotalOf(h2h_records, manager, "losses"),
         points_for |-> TotalOf(h2h_records, manager, "points_for"),
         points_against |-> TotalOf(h2h_records, manager, "points_against"),
         games |-> TotalOf(h2h_records, manager, "games")]]

\* wins2_actual = h2h_records[manager2][manager1]['wins'], counting only what
\* the other side lost
ReverseWinsFromLosses(h2h_records, manager2, manager1) ==
    StatsOf(h2h_records, <<manager1, manager2>>).games
      - StatsOf(h2h_records, <<manager1, manager2>>).wins

\* wins2_actual = h2h_records[manager2][manager1]['wins']
ReverseWins(h2h_records, manager2, manager1) ==
    StatsOf(h2h_records, <<manager2, manager1>>).wins

\* close_rivalries.sort(key=(diff, -games)) is stable
RivalryNotAfter(r, e) == r.diff < e.diff \/ (r.diff = e.diff /\ r.games >= e.games)

RECURSIVE SortCloseRivalries(_, _)
SortCloseRivalries(sorted, rest) ==
    IF rest = <<>> THEN sorted
    ELSE LET e == Head(rest)
             before == SelectSeq(sorted, LAMBDA r : RivalryNotAfter(r, e))
             after == SelectSeq(sorted, LAMBDA r : ~RivalryNotAfter(r, e))
         IN  SortCloseRivalries(before \o <<e>> \o after, Tail(rest))

\* close_rivalries of create_h2h_analysis: of each pair the entry met first,
\* when it has 7 games or more and wins and losses at most 2 apart
CloseRivalries(h2h_records) ==
    LET nested == NestedOrder(h2h_records)
        first_of_pair ==
            SelectSeq([i \in 1..Len(nested) |-> [at |-> i, record |-> nested[i]]],
                      LAMBDA e : \A j \in 1..(e.at - 1) :
                                    {nested[j].key[1], nested[j].key[2]}
                                      # {e.record.key[1], e.record.key[2]})
        diff_of(record) == IF record.wins >= record.losses
                           THEN record.wins - record.losses
                           ELSE record.losses - record.wins
        close == SelectSeq(first_of_pair,
                           LAMBDA e : e.record.games >= 7 /\ diff_of(e.record) <= 2)
    IN  SortCloseRivalries(<<>>,
                      [i \in 1..Len(close) |->
                          [manager1 |-> close[i].record.key[1],
                           manager2 |-> close[i].record.key[2],
                           wins1 |-> close[i].record.wins,
                           wins2 |-> ReverseWins(h2h_records, close[i].record.key[2],
                                                 close[i].record.key[1]),
                           games |-> close[i].record.games,
                           diff |-> diff_of(close[i].record)]])

\* create_h2h_analysis, to its rivalries: reads the final dataset
CreateH2HAnalysis ==
    /\ final.exists
    /\ LET h2h_records == H2HRecords(<<>>, CurrentMatchups(final.matchups_final))
       IN  h2h_analysis' = [done |-> TRUE, h2h_records |-> h2h_records,
                            overall_records |-> OverallRecords(h2h_records),
                            dominant_records |-> DominantRecords(h2h_records),
                            close_rivalries |-> CloseRivalries(h2h_records)]
    /\ UNCHANGED <<call, fs, site, proc, table, extraction>>

\* The most rows of a final dataset handed to the report scripts
MaxGames == 5

\* Rows of a final dataset: either manager winning, the loser of one well above
\* the average, a tie, and a matchup of two teams of one manager
SeriesRowPool ==
    { [season |-> 2023, week |-> w[1], team1 |-> Tm_Ab, team2 |-> Tm_Nu,
       winner |-> Tm_Ab, team1_score |-> w[5], team2_score |-> w[6], playoff |-> FALSE,
       manager1 |-> w[2], manager2 |-> w[3], winning_manager |-> w[4]] :
        w \in {<<1, Billy, Phoenix, Billy, 1500, 1000>>,
               <<2, Phoenix, Billy, Phoenix, 1900, 1800>>,
               <<3, Billy, Phoenix, Missing, 1000, 1000>>,
               <<4, Billy, Billy, Billy, 1200, 1100>>} }

InitDominance ==
    /\ StorageInit /\ ScraperIdle /\ ToolsIdle
    /\ raw_matchups = <<>>
    /\ owners_data = <<>>
    /\ \E rows \in ListsUpTo(SeriesRowPool, MaxGames) :
          final = [exists |-> TRUE, raised |-> FALSE, mapping |-> <<>>,
                   matchups_final |-> rows]
    /\ prev_final = NoFinal
    /\ insights = NoInsights

NextDominance ==
    /\ \/ CreateTemporalDynamicsInsights /\ UNCHANGED toolVars
       \/ CreateH2HAnalysis /\ UNCHANGED pipelineVars
    /\ UNCHANGED <<storageVars, scraperVars>>

SpecDominance == InitDominance /\ [][NextDominance]_vars

\* The games of an ordered pair of managers in the final dataset's active-roster
\* rows, and those the first of them won
SeriesGames(first, second) ==
    SelectSeq(CurrentMatchups(final.matchups_final), LAMBDA row :
                 {row.manager1, row.manager2} = {first, second})

SeriesWins(first, second) ==
    Len(SelectSeq(SeriesGames(first, second), LAMBDA row : row.winning_manager = first))

\* C15: once both scripts have run on a final dataset, every ordered pair of
\* different active managers with at least 5 games and a win rate of at least 90%
\* is in the dynamics script's kryptonite report as "Kryptonite", one with a rate
\* from 80% to below 90% as "Heavy Favorite", and every pair of that report is
\* among the H2H script's dominant records with the same wins, losses and games.
C15_KryptoniteIsDominant ==
    (insights.done /\ h2h_analysis.done) =>
        /\ \A manager1, manager2 \in ActiveManagers :
             LET games == Len(SeriesGames(manager1, manager2))
                 wins == SeriesWins(manager1, manager2)
             IN  (manager1 # manager2 /\ games >= 5 /\ 10 * wins >= 8 * games) =>
                    \E k \in insights.kryptonite :
                        /\ k.dominator = manager1 /\ k.victim = manager2
                        /\ k.wins = wins /\ k.games = games
                        /\ k.dominance_level =
                             IF 10 * wins >= 9 * games THEN "Kryptonite"
                             ELSE "Heavy Favorite"
        /\ \A k \in insights.kryptonite :
             \E i \in 1..Len(h2h_analysis.dominant_records) :
                LET d == h2h_analysis.dominant_records[i]
                IN  /\ d.manager1 = k.dominator /\ d.manager2 = k.victim
                    /\ d.wins = k.wins /\ d.losses = k.losses /\ d.games = k.games

\* ================================================== parity: the Gini coefficient

\* np.sort(values)
RECURSIVE SortAscending(_, _)
SortAscending(sorted, rest) ==
    IF rest = <<>> THEN sorted
    ELSE SortAscending(SelectSeq(sorted, LAMBDA v : v <= Head(rest)) \o <<Head(rest)>>
                         \o SelectSeq(sorted, LAMBDA v : v > Head(rest)),
                       Tail(rest))

\* calculate_gini(values), the values in a common unit: the coefficient
\* 2 * sum(index * values) / (n * sum(values)) - (n + 1) / n as one fraction.  An
\* empty list makes (n + 1) / n raise ZeroDivisionError; values that sum to 0
\* make numpy divide 0 by 0, which gives nan
CalculateGini(values) ==
    LET sorted == SortAscending(<<>>, values)
        n == Len(sorted)
        weighted == SumSeq([index \in 1..n |-> index * sorted[index]])
        total == SumSeq(sorted)
    IN  IF n = 0 THEN [raised |-> TRUE, nan |-> FALSE, num |-> 0, den |-> 1]
        ELSE IF total = 0 THEN [raised |-> FALSE, nan |-> TRUE, num |-> 0, den |-> 1]
        ELSE [raised |-> FALSE, nan |-> FALSE,
              num |-> 2 * weighted - (n + 1) * total, den |-> n * total]

\* calculate_gini(season_win_pcts)
CalculateGiniCall ==
    /\ call.op = "calculate_gini" /\ ~call.done
    /\ call' = [call EXCEPT !.done = TRUE, !.raised = CalculateGini(call.arg).raised,
                            !.value = CalculateGini(call.arg)]
    /\ UNCHANGED <<h2h_analysis, fs, site, proc, table, extraction>>

\* Managers of a season, and the steps win percentages are counted in: with 2,
\* a win percentage is 0, 1/2 or 1
MaxManagers == 4
PctSteps == 2

InitGini ==
    /\ StorageInit /\ ScraperIdle /\ PipelineIdle
    /\ h2h_analysis = NoAnalysis /\ ScriptsIdle
    /\ \E values \in ListsUpTo(0..PctSteps, MaxManagers) :
          call = [NoCall EXCEPT !.op = "calculate_gini", !.arg = values]

NextGini ==
    /\ CalculateGiniCall
    /\ UNCHANGED <<storageVars, scraperVars, pipelineVars>>

SpecGini == InitGini /\ [][NextGini]_vars

\* C16: for a non-empty list of identical win percentages calculate_gini returns
\* 0, and for n managers of whom one has win percentage 1 and the others 0 it
\* returns (n - 1) / n.
C16_GiniOfEqualAndOfOneWinner ==
    (call.op = "calculate_gini" /\ call.done /\ call.arg # <<>>) =>
        LET values == call.arg
            n == Len(values)
        IN  /\ (\A i, j \in 1..n : values[i] = values[j]) =>
                  (~call.raised /\ ~call.value.nan /\ call.value.num = 0)
            /\ (\E i \in 1..n : /\ values[i] = PctSteps
                                /\ \A j \in 1..n : j # i => values[j] = 0) =>
                  /\ ~call.raised /\ ~call.value.nan
                  /\ call.value.num * n = (n - 1) * call.value.den

\* ============================================================ cleanup utility

\* redundant_dirs, redundant_scripts (one script is listed twice) and
\* redundant_files of cleanup_project
RedundantDirs ==
    << "data/full_seasons_2020_2024", "data/full_seasons_2017_2024",
       "data/manager_mapped_dataset", "data/final_corrected_dataset",
       "data/manager_analysis_2020_2024", "data/manager_analysis_final",
       "data/owner_mappings", "data/season_2019" >>

RedundantScripts ==
    << "scripts/extract_real_data.py", "scripts/extract_with_better_parsing.py",
       "scripts/extract_real_game_data.py", "scripts/extract_final_real_data.py",
       "scripts/extract_matchup_data.py", "scripts/extract_week_matchups.py",
       "scripts/extract_owner_mappings.py", "scripts/extract_full_seasons.py",
       "scripts/extract_seasons_efficient.py", "scripts/extract_2022_and_combine.py",
       "scripts/extract_2020_2021.py", "scripts/extract_manager_names.py",
       "scripts/extract_2017_2019.py", "scripts/extract_2017_2019_focused.py",
       "scripts/extract_2019_only.py", "scripts/check_2019_data.py",
       "scripts/check_historical_availability.py",
       "scripts/create_owner_mapped_dataset.py", "scripts/create_fixed_owner_mapping.py",
       "scripts/create_final_corrected_dataset.py",
       "scripts/create_owner_mapped_dataset.py",
       "scripts/create_final_manager_reports.py" >>

RedundantFiles ==
    << "data/actual_owners/owners_2017.csv", "data/actual_owners/owners_2018.csv",
       "data/actual_owners/owners_2019.csv", "data/actual_owners/owners_2020.csv",
       "data/actual_owners/owners_2021.csv", "data/actual_owners/owners_2022.csv",
       "data/actual_owners/owners_2023.csv", "data/actual_owners/owners_2024.csv" >>

\* One of the three deletion loops over the tree and output so far: a path that
\* exists is removed and reported; one that does not is reported as not found in
\* the loops that have an else branch
RECURSIVE RemoveListed(_, _, _)
RemoveListed(state, paths, has_else) ==
    IF paths = <<>> THEN state
    ELSE LET path == Head(paths)
         IN  RemoveListed(
                 IF state.fs[path] # "absent"
                 THEN [fs |-> [state.fs EXCEPT ![path] = "absent"],
                       removed |-> state.removed \cup {path},
                       report |-> Append(state.report,
                                         [text |-> "Removing", path |-> path])]
                 ELSE IF has_else
                 THEN [state EXCEPT !.report =
                          Append(@, [text |-> "Not found", path |-> path])]
                 ELSE state,
                 Tail(paths), has_else)

\* cleanup_project(): the three loops, then README.md written anew
CleanupProject ==
    /\ proc.runs < 2
    /\ LET dirs == RemoveListed([fs |-> fs, removed |-> {}, report |-> <<>>],
                                RedundantDirs, TRUE)
           scripts == RemoveListed(dirs, RedundantScripts, TRUE)
           owner_files == RemoveListed(scripts, RedundantFiles, FALSE)
       IN  /\ fs' = [owner_files.fs EXCEPT !["README.md"] = "project overview"]
           /\ proc' = [script |-> "cleanup_project", runs |-> proc.runs + 1,
                       exit_code |-> 0, report |-> owner_files.report,
                       removed |-> owner_files.removed,
                       first_removed |-> IF proc.runs = 0 THEN owner_files.removed
                                         ELSE proc.first_removed,
                       before |-> fs]
    /\ UNCHANGED <<call, h2h_analysis, site, table, extraction>>

ListedPaths == SetOfSeq(RedundantDirs) \cup SetOfSeq(RedundantScripts)
                 \cup SetOfSeq(RedundantFiles)

\* The most listed paths the tree holds when the utility is first run
MaxPresent == 2

\* A project tree: some listed directories, scripts and per-year owners files are
\* there, and README.md is absent or has other text
InitCleanup ==
    /\ StorageInit /\ ScraperIdle /\ PipelineIdle
    /\ call = NoCall /\ h2h_analysis = NoAnalysis /\ table = NoTable /\ extraction = NoExtraction
    /\ site = [visualizations |-> NoDir, docs |-> NoDir]
    /\ proc = NoProc
    /\ \E there \in ListsUpTo(ListedPaths, MaxPresent), readme \in {"absent", "notes"} :
          LET present == SetOfSeq(there)
          IN  fs = [path \in ListedPaths \cup {"README.md"} |->
                        IF path = "README.md" THEN readme
                        ELSE IF path \notin present THEN "absent"
                        ELSE IF path \in SetOfSeq(RedundantDirs) THEN "dir"
                        ELSE "file"]

NextCleanup ==
    /\ CleanupProject
    /\ UNCHANGED <<storageVars, scraperVars, pipelineVars>>

SpecCleanup == InitCleanup /\ [][NextCleanup]_vars

\* C17: a second run of the cleanup utility right after a first deletes nothing,
\* reports "Not found" for every directory, script and per-year owners file the
\* first run removed, and leaves the tree as the first run left it.
C17_SecondCleanupReportsNotFound ==
    (proc.script = "cleanup_project" /\ proc.runs = 2) =>
        /\ proc.exit_code = 0
        /\ proc.removed = {}
        /\ fs = proc.before
        /\ \A path \in proc.first_removed :
             \E i \in 1..Len(proc.report) :
                proc.report[i] = [text |-> "Not found", path |-> path]

\* ========================================================== deployment helper

\* viz_dir.glob("*.html"): the names that end in .html
HtmlNames(dir) == {name \in DOMAIN dir.files : name.suffix = ".html"}

\* The copy loop taken over every file of the directory
DocsFilesAfterCopyAll(visualizations, docs) ==
    [name \in DOMAIN docs.files \cup DOMAIN visualizations.files |->
        IF name \in DOMAIN visualizations.files THEN visualizations.files[name]
        ELSE docs.files[name]]

\* The files of docs after shutil.copy2(file_path, docs_dir / file_path.name) for
\* every file of the glob
DocsFilesAfterCopy(visualizations, docs) ==
    [name \in DOMAIN docs.files \cup HtmlNames(visualizations) |->
        IF name \in HtmlNames(visualizations) THEN visualizations.files[name]
        ELSE docs.files[name]]

\* deploy_to_docs() and the sys.exit of the script; `order` is the order in which
\* the glob yields the files
DeployToDocs(order) ==
    /\ proc.runs < 2
    /\ IF ~site.visualizations.exists
       THEN /\ proc' = [script |-> "deploy_to_docs", runs |-> proc.runs + 1,
                        exit_code |-> 1, report |-> <<>>, removed |-> {},
                        first_removed |-> {}, before |-> site]
            /\ UNCHANGED site
       ELSE /\ site' = [site EXCEPT !.docs =
                          [exists |-> TRUE,
                           files |-> DocsFilesAfterCopy(site.visualizations, site.docs)]]
            /\ proc' = [script |-> "deploy_to_docs", runs |-> proc.runs + 1,
                        exit_code |-> 0, report |-> order, removed |-> {},
                        first_removed |-> {}, before |-> site]
    /\ UNCHANGED <<call, h2h_analysis, fs, table, extraction>>

\* File names of the two directories
SiteNames ==
    { [stem |-> "index", suffix |-> ".html"], [stem |-> "heatmap", suffix |-> ".html"],
      [stem |-> "notes", suffix |-> ".txt"] }

\* visualizations absent or with freshly written files, docs absent or with an
\* earlier deployment's files and files of its own
InitDeploy ==
    /\ StorageInit /\ ScraperIdle /\ PipelineIdle
    /\ call = NoCall /\ h2h_analysis = NoAnalysis /\ table = NoTable /\ extraction = NoExtraction
    /\ fs = <<>>
    /\ proc = NoProc
    /\ \E made \in SUBSET SiteNames, kept \in SUBSET SiteNames,
          viz_exists \in BOOLEAN, docs_exists \in BOOLEAN :
          site = [visualizations |->
                     IF viz_exists THEN [exists |-> TRUE, files |-> [n \in made |-> "new"]]
                     ELSE NoDir,
                  docs |->
                     IF docs_exists THEN [exists |-> TRUE, files |-> [n \in kept |-> "old"]]
                     ELSE NoDir]

NextDeploy ==
    /\ \E order \in Orders(HtmlNames(site.visualizations)) : DeployToDocs(order)
    /\ UNCHANGED <<storageVars, scraperVars, pipelineVars>>

SpecDeploy == InitDeploy /\ [][NextDeploy]_vars

GetEra(season) ==
    IF season <= 2019 THEN "Early Era (2017-2019)"
    ELSE IF season <= 2021 THEN "Middle Era (2020-2021)"
    ELSE "Recent Era (2022-2024)"

TieLabel == <<"T", "i", "e">>

\* One entry of table_data: the columns create_matchup_table adds to a row of
\* the final dataset and the dict create_interactive_html_table makes of it.
\* Scores are in tenths, so round(x, 2) leaves them as they are.
TableRow(row) ==
    LET margin == IF row.team1_score >= row.team2_score
                  THEN row.team1_score - row.team2_score
                  ELSE row.team2_score - row.team1_score
        total_points == row.team1_score + row.team2_score
    IN  [season |-> row.season,
         week |-> row.week,
         era |-> GetEra(row.season),
         week_type |-> IF row.playoff THEN "Playoff" ELSE "Regular Season",
         team1 |-> row.team1,
         manager1 |-> row.manager1,
         team1_score |-> row.team1_score,
         team2 |-> row.team2,
         manager2 |-> row.manager2,
         team2_score |-> row.team2_score,
         winner |-> IF row.winner # Missing THEN row.winner ELSE TieLabel,
         winning_manager |-> IF row.winning_manager # Missing THEN row.winning_manager
                             ELSE TieLabel,
         margin |-> margin,
         total_points |-> total_points,
         high_scoring |-> total_points >= 2400,
         blowout |-> margin >= 300,
         close_game |-> margin <= 100]

\* The comparator of sortData does not put r behind e: r stays in front of e when
\* e is placed by the stable Array.prototype.sort
StaysBefore(r, e, sortColumn, sortDirection) ==
    IF sortDirection = "asc" THEN r[sortColumn] <= e[sortColumn]
    ELSE r[sortColumn] >= e[sortColumn]

\* sortData(): filteredData.sort(...) by sortColumn in sortDirection, in place
RECURSIVE SortData(_, _, _, _)
SortData(sorted, rest, sortColumn, sortDirection) ==
    IF rest = <<>> THEN sorted
    ELSE SortData(
             SelectSeq(sorted, LAMBDA r : StaysBefore(r, Head(rest), sortColumn, sortDirection))
               \o <<Head(rest)>>
               \o SelectSeq(sorted,
                            LAMBDA r : ~StaysBefore(r, Head(rest), sortColumn, sortDirection)),
             Tail(rest), sortColumn, sortDirection)

\* String.prototype.includes
Includes(text, part) ==
    \E i \in 1..(Len(text) - Len(part) + 1) : SubSeq(text, i, i + Len(part) - 1) = part

\* A search that looks at the names of the two teams and the two managers only
MatchesNames(match, search) ==
    \/ Includes(LowerText(match.team1), search)
    \/ Includes(LowerText(match.team2), search)
    \/ Includes(LowerText(match.manager1), search)
    \/ Includes(LowerText(match.manager2), search)

\* matchesSearch(match, search)
MatchesSearch(match, search) ==
    \/ Includes(LowerText(match.team1), search)
    \/ Includes(LowerText(match.team2), search)
    \/ Includes(LowerText(match.manager1), search)
    \/ Includes(LowerText(match.manager2), search)
    \/ Includes(LowerText(match.winning_manager), search)

\* The predicate of matchupData.filter(...) in applyFilters, with the values of
\* the six controls; the search text has been lower-cased by the caller
PassesFilters(match, controls, search, Searched(_, _)) ==
    /\ controls.season = <<>> \/ <<match.season>> = controls.season
    /\ controls.era = "" \/ match.era = controls.era
    /\ \/ controls.manager = <<>>
       \/ match.manager1 = controls.manager
       \/ match.manager2 = controls.manager
    /\ controls.weekType = "" \/ match.week_type = controls.weekType
    /\ controls.gameType = "" \/ match[controls.gameType]
    /\ search = <<>> \/ Searched(match, search)

\* Number.prototype.toFixed(1) of sum / n, in tenths: to the nearest, a half up
ToFixed1(sum, n) == (2 * sum + n) \div (2 * n)

\* updateStats(data): the text of the five summary cells, as numbers
UpdateStats(data) ==
    IF Len(data) > 0
    THEN [totalMatches |-> Len(data),
          avgPoints |-> ToFixed1(SumSeq(Column(data, "total_points")), Len(data)),
          highScoringCount |-> Len(SelectSeq(data, LAMBDA m : m.high_scoring)),
          blowoutCount |-> Len(SelectSeq(data, LAMBDA m : m.blowout)),
          closeGameCount |-> Len(SelectSeq(data, LAMBDA m : m.close_game))]
    ELSE [totalMatches |-> Len(data), avgPoints |-> 0, highScoringCount |-> 0,
          blowoutCount |-> 0, closeGameCount |-> 0]

\* renderTable(data) on the page t: with no row it hides the body and returns;
\* otherwise it writes the rows and calls updateStats
RenderTable(t, data) ==
    IF Len(data) = 0
    THEN [t EXCEPT !.tbody.display = FALSE]
    ELSE [t EXCEPT !.tbody = [display |-> TRUE, rows |-> data], !.stats = UpdateStats(data)]

\* The six filter controls as the page is written: nothing chosen, nothing typed
NoFilters == [season |-> <<>>, era |-> "", manager |-> <<>>, weekType |-> "",
              gameType |-> "", search |-> <<>>]

\* An applyFilters that leaves the passing rows in the order of matchupData
ApplyFiltersUnsorted(t, controls) ==
    LET search == LowerText(controls.search)
        filteredData == SelectSeq(t.matchupData,
                             LAMBDA match : PassesFilters(match, controls, search, MatchesSearch))
    IN  RenderTable([t EXCEPT !.controls = controls, !.filteredData = filteredData],
                    filteredData)

\* applyFilters() on the page t whose controls hold `controls`
ApplyFilters(t, controls) ==
    LET search == LowerText(controls.search)
        passing == SelectSeq(t.matchupData,
                             LAMBDA match : PassesFilters(match, controls, search, MatchesSearch))
        filteredData == SortData(<<>>, passing, t.sortColumn, t.sortDirection)
    IN  RenderTable([t EXCEPT !.controls = controls, !.filteredData = filteredData],
                    filteredData)

\* The values given to the six controls: the season, era and manager1 options
\* made from the frame, "All Weeks" and "Playoff" of the week types, the game
\* types, and texts typed into the search box
ControlOptions(control) ==
    CASE control = "season" ->
             {<<>>} \cup {<<table.matchupData[i].season>> : i \in 1..Len(table.matchupData)}
      [] control = "era" ->
             {""} \cup {table.matchupData[i].era : i \in 1..Len(table.matchupData)}
      [] control = "manager" ->
             {<<>>} \cup {table.matchupData[i].manager1 : i \in 1..Len(table.matchupData)}
      [] control = "weekType" -> {"", "Playoff"}
      [] control = "gameType" -> {"", "high_scoring", "blowout", "close_game"}
      [] control = "search" -> {<<>>, <<"A", "b">>, <<"t", "i">>}

\* A change of one select, or input in the search box: the listener applyFilters
FilterChange(control, value) ==
    /\ table.open
    /\ table' = [ApplyFilters(table, [table.controls EXCEPT ![control] = value])
                   EXCEPT !.last = "applyFilters", !.arg = "", !.threw = FALSE]
    /\ UNCHANGED <<call, h2h_analysis, fs, site, proc, extraction>>

\* clearFilters(): a click on "Clear All"
ClearFilters ==
    /\ table.open
    /\ table' = [ApplyFilters(table, NoFilters)
                   EXCEPT !.last = "clearFilters", !.arg = "", !.threw = FALSE]
    /\ UNCHANGED <<call, h2h_analysis, fs, site, proc, extraction>>

\* The columns whose header calls sortTable
SortableColumns == {"season", "week", "team1_score", "team2_score", "margin", "total_points"}

\* A direction that is ascending for every newly chosen column
SortDirectionAscending(sortColumn, sortDirection, column) ==
    IF sortColumn = column
    THEN (IF sortDirection = "asc" THEN "desc" ELSE "asc")
    ELSE "asc"

\* The direction sortTable(column) sets
SortDirection(sortColumn, sortDirection, column) ==
    IF sortColumn = column
    THEN (IF sortDirection = "asc" THEN "desc" ELSE "asc")
    ELSE (IF column = "season" THEN "desc" ELSE "asc")

\* sortTable(column): a click on a sortable header
SortTable(column) ==
    /\ table.open
    /\ LET sortDirection == SortDirection(table.sortColumn, table.sortDirection, column)
           filteredData == SortData(<<>>, table.filteredData, column, sortDirection)
       IN  table' = [RenderTable([table EXCEPT !.sortColumn = column,
                                               !.sortDirection = sortDirection,
                                               !.filteredData = filteredData],
                                 filteredData)
                       EXCEPT !.last = "sortTable", !.arg = column, !.threw = FALSE]
    /\ UNCHANGED <<call, h2h_analysis, fs, site, proc, extraction>>

\* A click on the header cell whose onclick is resetSorting(): the page's script
\* defines no such function, so the handler throws ReferenceError and nothing
\* else happens
ResetSortingClick ==
    /\ table.open
    /\ table' = [table EXCEPT !.last = "resetSorting", !.arg = "", !.threw = TRUE]
    /\ UNCHANGED <<call, h2h_analysis, fs, site, proc, extraction>>

\* The most rows of the table
MaxShown == 3

\* Frames of the final dataset between active managers, sorted by season and
\* week: none; a drawn game; a close, high-scoring playoff game, a blowout and
\* the drawn game; two games of one week
TableFramePool ==
    LET close == [season |-> 2024, week |-> 15, playoff |-> TRUE,
                  team1 |-> Tm_Ab, manager1 |-> <<"N", "i", "c">>, team1_score |-> 1300,
                  team2 |-> Tm_Nu, manager2 |-> Billy, team2_score |-> 1250,
                  winner |-> Tm_Ab, winning_manager |-> <<"N", "i", "c">>]
        drawn == [season |-> 2019, week |-> 1, playoff |-> FALSE,
                  team1 |-> Tm_Nu, manager1 |-> Billy, team1_score |-> 1000,
                  team2 |-> Tm_Ab, manager2 |-> <<"N", "i", "c">>, team2_score |-> 1000,
                  winner |-> Missing, winning_manager |-> Missing]
        blowout == [season |-> 2024, week |-> 1, playoff |-> FALSE,
                    team1 |-> Tm_Nu, manager1 |-> Billy, team1_score |-> 1405,
                    team2 |-> Tm_Xox, manager2 |-> <<"N", "e", "l", "s", "o", "n">>,
                    team2_score |-> 900,
                    winner |-> Tm_Nu, winning_manager |-> Billy]
        other == [season |-> 2024, week |-> 1, playoff |-> FALSE,
                  team1 |-> Tm_Ab, manager1 |-> <<"N", "i", "c">>, team1_score |-> 900,
                  team2 |-> Tm_Xox, manager2 |-> <<"N", "e", "l", "s", "o", "n">>,
                  team2_score |-> 1200,
                  winner |-> Tm_Xox, winning_manager |-> <<"N", "e", "l", "s", "o", "n">>]
    IN  {<<>>, <<drawn>>, <<close, blowout, drawn>>, <<blowout, other>>}

\* (season, week) of a is not below that of b
NotBelow(a, b) == a.season > b.season \/ (a.season = b.season /\ a.week >= b.week)

\* Season descending, then week descending
DefaultOrder(rows) == \A i, j \in 1..Len(rows) : i < j => NotBelow(rows[i], rows[j])

\* The page as the browser has loaded it: the summary cells and the empty body
\* of the HTML, then the script's `sortData(); renderTable(filteredData)`
LoadedTable(table_data) ==
    LET filteredData == SortData(<<>>, table_data, "season", "desc")
    IN  RenderTable([NoTable EXCEPT
                       !.open = TRUE,
                       !.matchupData = table_data,
                       !.filteredData = filteredData,
                       !.stats = [totalMatches |-> Len(table_data), avgPoints |-> 0,
                                  highScoringCount |-> 0, blowoutCount |-> 0,
                                  closeGameCount |-> 0]],
                    filteredData)

\* The page of a frame sorted by season and week, both descending
InitTable ==
    /\ StorageInit /\ ScraperIdle /\ PipelineIdle
    /\ call = NoCall /\ h2h_analysis = NoAnalysis
    /\ fs = <<>>
    /\ site = [visualizations |-> NoDir, docs |-> NoDir]
    /\ proc = NoProc
    /\ extraction = NoExtraction
    /\ \E current_matchups \in TableFramePool :
          /\ Len(current_matchups) <= MaxShown
          /\ DefaultOrder(current_matchups)
          /\ table = LoadedTable([i \in 1..Len(current_matchups) |->
                                     TableRow(current_matchups[i])])

NextTable ==
    /\ \/ \E column \in SortableColumns : SortTable(column)
       \/ ResetSortingClick
       \/ \E control \in DOMAIN NoFilters :
             \E value \in ControlOptions(control) : FilterChange(control, value)
       \/ ClearFilters
    /\ UNCHANGED <<storageVars, scraperVars, pipelineVars>>

SpecTable == InitTable /\ [][NextTable]_vars

\* C20: after the "reset sorting to default" control is activated, from whatever
\* sort state header clicks have made, the sort column is season, the direction
\* descending, and the rows are shown season descending, then week descending.
C20_ResetRestoresDefaultSort ==
    table.last = "resetSorting" =>
        /\ table.sortColumn = "season"
        /\ table.sortDirection = "desc"
        /\ DefaultOrder(table.filteredData)

\* The rows the page shows: those of the table body while it is displayed
ShownRows == IF table.tbody.display THEN table.tbody.rows ELSE <<>>

\* C21: after every filter change, including one that leaves no matching row,
\* the summary bar's total matches, average total points and high-scoring,
\* blowout and close-game counts are those of the currently filtered rows.
C21_SummaryBarFollowsFilters ==
    table.last \in {"applyFilters", "clearFilters"} =>
        LET data == table.filteredData
        IN  /\ table.stats.totalMatches = Len(data)
            /\ table.stats.avgPoints =
                   (IF data = <<>> THEN 0
                    ELSE ToFixed1(SumSeq(Column(data, "total_points")), Len(data)))
            /\ table.stats.highScoringCount = Cardinality({i \in 1..Len(data) : data[i].high_scoring})
            /\ table.stats.blowoutCount = Cardinality({i \in 1..Len(data) : data[i].blowout})
            /\ table.stats.closeGameCount = Cardinality({i \in 1..Len(data) : data[i].close_game})

\* C22: the sort state starts as (season, descending); a click on the header of
\* the sorted column flips the direction, a click on another sortable header
\* selects that column ascending (descending for season), and no filter change,
\* search input or clear-all changes the sort column or direction.
C22_SortStateChangesOnlyByHeaderClicks ==
    [][ /\ table.last = "none" =>
              table.sortColumn = "season" /\ table.sortDirection = "desc"
        /\ table'.last = "sortTable" =>
              /\ table'.sortColumn = table'.arg
              /\ table'.sortDirection =
                    (IF table.sortColumn = table'.arg
                     THEN (IF table.sortDirection = "asc" THEN "desc" ELSE "asc")
                     ELSE IF table'.arg = "season" THEN "desc" ELSE "asc")
        /\ table'.last \in {"applyFilters", "clearFilters"} =>
              /\ table'.sortColumn = table.sortColumn
              /\ table'.sortDirection = table.sortDirection ]_vars

\* A filter was changed while the table was sorted by week, descending
C22_Witness ==
    /\ table.last = "applyFilters"
    /\ table.sortColumn = "week"
    /\ table.sortDirection = "desc"
    /\ table.controls # NoFilters

\* How often a row occurs in a list
Occurrences(rows, row) == Cardinality({i \in 1..Len(rows) : rows[i] = row})

\* The rows shown are exactly the rows of the dataset that pass the controls'
\* filters with the given search, in the order of the sort column and direction
ShowsFiltered(Searched(_, _)) ==
    /\ \A row \in SetOfSeq(table.matchupData) \cup SetOfSeq(ShownRows) :
          Occurrences(ShownRows, row) =
              (IF PassesFilters(row, table.controls, LowerText(table.controls.search), Searched)
               THEN Occurrences(table.matchupData, row) ELSE 0)
    /\ \A i, j \in 1..Len(ShownRows) :
          i < j => StaysBefore(ShownRows[i], ShownRows[j], table.sortColumn,
                               table.sortDirection)

RECURSIVE FirstSeen(_, _)
FirstSeen(seen, rest) ==
    IF rest = <<>> THEN seen
    ELSE FirstSeen(IF Head(rest) \in SetOfSeq(seen) THEN seen ELSE Append(seen, Head(rest)),
                   Tail(rest))

\* results[key] = value for each entry in turn: a later entry replaces an
\* earlier one of the same key
RECURSIVE DictOf(_, _)
DictOf(d, entries) ==
    IF entries = <<>> THEN d
    ELSE DictOf(DictSet(d, Head(entries).key, Head(entries).value), Tail(entries))

\* The two sides of each matchup in the order the loops visit them: team 1's
\* owner and score, then team 2's
TeamSides(matchups) ==
    [i \in 1..2 * Len(matchups) |->
        LET matchup == matchups[(i + 1) \div 2]
        IN  IF i % 2 = 1
            THEN [owner_id |-> matchup.team1_owner_id, score |-> matchup.team1_score,
                  season |-> matchup.season,
                  won |-> PyEq(matchup.winner_owner_id, matchup.team1_owner_id),
                  lost |-> /\ ~PyEq(matchup.winner_owner_id, matchup.team1_owner_id)
                           /\ PyEq(matchup.winner_owner_id, matchup.team2_owner_id)]
            ELSE [owner_id |-> matchup.team2_owner_id, score |-> matchup.team2_score,
                  season |-> matchup.season,
                  won |-> /\ ~PyEq(matchup.winner_owner_id, matchup.team1_owner_id)
                          /\ PyEq(matchup.winner_owner_id, matchup.team2_owner_id),
                  lost |-> PyEq(matchup.winner_owner_id, matchup.team1_owner_id)]]

\* The largest of a non-empty set of numbers, and the smallest
Largest(S) == CHOOSE x \in S : \A y \in S : y <= x
Smallest(S) == CHOOSE x \in S : \A y \in S : x <= y

\* FantasyAnalytics.get_points_leaders(season): season is NoInt for None; the
\* points are in tenths, so round(x, 1) changes only the average
GetPointsLeaders(season) ==
    LET matchups == LoadMatchups(files.matchups)
        owner_names == OwnerNames(<<>>, LoadOwners(files.owners))
        played == IF season # NoInt /\ season # SomeInt(0)
                  THEN SelectSeq(matchups, LAMBDA m : m.season = season[1])
                  ELSE matchups
        sides == TeamSides(played)
        ids == FirstSeen(<<>>, Column(sides, "owner_id"))
        LeaderStats(id) ==
            LET scores == Column(SelectSeq(sides, LAMBDA s : s.owner_id = id), "score")
            IN  [total_points |-> SumSeq(scores),
                 average_points |-> IF Len(scores) > 0
                                    THEN RoundHalfEven(SumSeq(scores), Len(scores)) ELSE 0,
                 highest_game |-> Largest(SetOfSeq(scores) \cup {0}),
                 games_played |-> Len(scores)]
    IN  /\ ret' = [op |-> "get_points_leaders", raised |-> FALSE, stats |-> season,
                   records |-> DictOf(<<>>, [i \in 1..Len(ids) |->
                                  [key |-> NameOr(owner_names, ids[i], ids[i]),
                                   value |-> LeaderStats(ids[i])]])]
        /\ UNCHANGED <<files, lastSaved, league_data>>

\* get_championship_history's champions: by season in the order the seasons
\* first occur, the first record of the lowest final_rank when that rank is 1
ChampionshipHistory(season_records, owner_names) ==
    LET seasons == FirstSeen(<<>>, Column(season_records, "season"))
        ChampionOf(season) ==
            LET records == SelectSeq(season_records, LAMBDA r : r.season = season)
                lowest == Smallest(SetOfSeq(Column(records, "final_rank")))
            IN  records[Smallest({i \in 1..Len(records) : records[i].final_rank = lowest})]
        won == SelectSeq(seasons, LAMBDA season : ChampionOf(season).final_rank = 1)
    IN  [i \in 1..Len(won) |->
            [key |-> won[i],
             value |-> NameOr(owner_names, ChampionOf(won[i]).owner_id,
                              ChampionOf(won[i]).owner_id)]]

\* FantasyAnalytics.get_championship_history
GetChampionshipHistory ==
    /\ ret' = [op |-> "get_championship_history", raised |-> FALSE, stats |-> <<>>,
               records |-> ChampionshipHistory(LoadSeasonRecords(files.season_records),
                                               OwnerNames(<<>>, LoadOwners(files.owners)))]
    /\ UNCHANGED <<files, lastSaved, league_data>>

\* FantasyAnalytics.get_playoff_performance: win_percentage and average_points
\* are in tenths
GetPlayoffPerformance ==
    LET matchups == LoadMatchups(files.matchups)
        owner_names == OwnerNames(<<>>, LoadOwners(files.owners))
        sides == TeamSides(SelectSeq(matchups, LAMBDA m : m.playoff))
        ids == FirstSeen(<<>>, Column(sides, "owner_id"))
        PlayoffStats(id) ==
            LET own == SelectSeq(sides, LAMBDA s : s.owner_id = id)
                wins == Len(SelectSeq(own, LAMBDA s : s.won))
                losses == Len(SelectSeq(own, LAMBDA s : s.lost))
                total_games == wins + losses
            IN  [appearances |-> Cardinality(SetOfSeq(Column(own, "season"))),
                 wins |-> wins,
                 losses |-> losses,
                 win_percentage |-> IF total_games > 0
                                    THEN RoundHalfEven(1000 * wins, total_games) ELSE 0,
                 average_points |-> IF total_games > 0
                                    THEN RoundHalfEven(SumSeq(Column(own, "score")),
                                                       total_games)
                                    ELSE 0]
    IN  /\ ret' = [op |-> "get_playoff_performance", raised |-> FALSE, stats |-> <<>>,
                   records |-> DictOf(<<>>, [i \in 1..Len(ids) |->
                                  [key |-> NameOr(owner_names, ids[i], ids[i]),
                                   value |-> PlayoffStats(ids[i])]])]
        /\ UNCHANGED <<files, lastSaved, league_data>>

\* ('N/A', 0) of generate_summary_stats
NoChampion == [owner |-> Str(<<"N", "/", "A">>), count |-> 0]

\* The pairs max(..., key=count) of generate_summary_stats can return: it takes
\* the first of the highest count as set(championships.values()) is iterated,
\* and that order is the hash order of the names
MostChampionships(championships) ==
    IF championships = <<>> THEN {NoChampion}
    ELSE LET names == SetOfSeq(Column(championships, "value"))
             CountOf(name) == Len(SelectSeq(championships, LAMBDA c : c.value = name))
             most == Largest({CountOf(name) : name \in names})
         IN  {[owner |-> name, count |-> most] : name \in {n \in names : CountOf(n) = most}}

\* FantasyAnalytics.generate_summary_stats: the scores are in tenths
GenerateSummaryStats ==
    LET owners == LoadOwners(files.owners)
        matchups == LoadMatchups(files.matchups)
        season_records == LoadSeasonRecords(files.season_records)
        all_scores == Column(TeamSides(matchups), "score")
        championships == ChampionshipHistory(season_records, OwnerNames(<<>>, owners))
    IN  /\ \E most_championships \in MostChampionships(championships) :
              ret' = [op |-> "generate_summary_stats", raised |-> FALSE, stats |-> <<>>,
                      records |->
                        [total_owners |-> Len(owners),
                         seasons_played |->
                             Cardinality(SetOfSeq(Column(season_records, "season"))),
                         total_matchups |-> Len(matchups),
                         total_games |-> Len(matchups),
                         highest_score_ever |-> IF all_scores # <<>>
                                                THEN Largest(SetOfSeq(all_scores)) ELSE 0,
                         lowest_score_ever |-> IF all_scores # <<>>
                                               THEN Smallest(SetOfSeq(all_scores)) ELSE 0,
                         average_score |-> IF all_scores # <<>>
                                           THEN RoundHalfEven(SumSeq(all_scores),
                                                              Len(all_scores))
                                           ELSE 0,
                         championships |-> championships,
                         most_championships |-> most_championships]]
        /\ UNCHANGED <<files, lastSaved, league_data>>

\* A count that takes the header line for a row and does not ask whether the
\* file is there
DataCountLines(file) == Len(file.rows) + 1

\* One entry of get_data_summary: len(pd.read_csv(path)) of a file that is
\* there, 0 of one that is not
DataCount(file) == IF file.exists THEN Len(file.rows) ELSE 0

\* CSVDataStorage.get_data_summary.  teams.csv and rosters.csv are written by
\* no save of a non-empty list here, so they are never there.
GetDataSummary ==
    /\ ret' = [op |-> "get_data_summary", raised |-> FALSE, stats |-> <<>>,
               records |-> [owners |-> DataCount(files.owners),
                            teams |-> DataCount(NoFile),
                            matchups |-> DataCount(files.matchups),
                            season_records |-> DataCount(files.season_records),
                            rosters |-> DataCount(NoFile),
                            head_to_head |-> DataCount(files.head_to_head)]]
    /\ UNCHANGED <<files, lastSaved, league_data>>

\* One of the load operations called from outside: load_owners, load_matchups,
\* load_season_records, load_head_to_head_records
LoadStored(data_type) ==
    /\ ret' = [op |-> CASE data_type = "owners" -> "load_owners"
                        [] data_type = "matchups" -> "load_matchups"
                        [] data_type = "season_records" -> "load_season_records"
                        [] data_type = "head_to_head" -> "load_head_to_head_records",
               raised |-> FALSE, stats |-> <<>>,
               records |-> CASE data_type = "owners" -> LoadOwners(files.owners)
                             [] data_type = "matchups" -> LoadMatchups(files.matchups)
                             [] data_type = "season_records" ->
                                    LoadSeasonRecords(files.season_records)
                             [] data_type = "head_to_head" ->
                                    LoadHeadToHeadRecords(files.head_to_head)]
    /\ UNCHANGED <<files, lastSaved, league_data>>

\* ----------------------------------- specification: the analytics operations

\* Three leagues to store: two owners with a regular-season and a playoff game
\* and one champion; one known owner, two playoff games and a champion in each
\* of two seasons; one owner, a drawn game and no champion
LeaguePool ==
    LET al == [owner_id |-> Str(GenerateOwnerId(T_Al)), name |-> Str(T_Al), email |-> None]
        bo == [owner_id |-> Str(GenerateOwnerId(<<"B", "o">>)), name |-> Str(<<"B", "o">>),
               email |-> Str(<<"b", "@", "x">>)]
        Game(teams, scores, week) ==
            ParseMatchupElement([teams |-> teams, scores |-> scores], PoolSeason, week, 0)
        Stood(owner, season, rank) ==
            [owner_id |-> owner.owner_id, season |-> season, wins |-> 2 - rank,
             losses |-> rank - 1, ties |-> 0, points_for |-> 105, points_against |-> 90,
             final_rank |-> rank, playoff_seed |-> NoInt]
    IN  { [owners |-> <<al, bo>>,
           matchups |-> Game(<<T_Al, T_XBo>>, <<<<"1", "0", ".", "5">>, <<"9">>>>, PoolWeek)
                        \o Game(<<T_XBo, T_Al>>, <<<<"7">>, <<"8">>>>, PoolWeek + 17),
           season_records |-> <<Stood(bo, PoolSeason, 2), Stood(al, PoolSeason, 1)>>],
          [owners |-> <<al>>,
           matchups |-> Game(<<T_Al, T_XBo>>, <<<<"3">>, <<"9">>>>, PoolWeek + 17)
                        \o Game(<<T_Al, T_XBo>>, <<<<"1", "0", ".", "5">>, <<"9">>>>,
                                PoolWeek + 17),
           season_records |-> <<Stood(al, PoolSeason, 1), Stood(bo, PoolSeason + 1, 1)>>],
          [owners |-> <<bo>>,
           matchups |-> Game(<<T_XBo, T_Al>>, <<<<"7">>, <<"7", " ", "p", "t", "s">>>>,
                             PoolWeek),
           season_records |-> <<Stood(al, PoolSeason, 2)>>] }

NextAnalytics ==
    /\ \/ \E league \in LeaguePool : SaveOwners(league.owners)
       \/ \E league \in LeaguePool : SaveMatchups(league.matchups)
       \/ \E league \in LeaguePool : SaveSeasonRecords(league.season_records)
       \/ \E data_type \in DOMAIN files : LoadStored(data_type)
       \/ GetDataSummary
       \/ CalculateHeadToHeadRecords
       \/ GetOwnerWinPercentages
       \/ \E season \in {NoInt, SomeInt(0), SomeInt(PoolSeason)} : GetPointsLeaders(season)
       \/ GetChampionshipHistory
       \/ GetPlayoffPerformance
       \/ \E min_games \in {1, DefaultMinGames} : GetRivalryAnalysis(min_games)
       \/ GenerateSummaryStats
    /\ UNCHANGED <<scraperVars, pipelineVars, toolVars>>

SpecAnalytics == Init /\ [][NextAnalytics]_vars

\* No CSV file is in the data directory
EmptyDataDirectory == \A data_type \in DOMAIN files : ~files[data_type].exists

\* What an operation returns when it finds nothing: an empty list or dict, and
\* for the two summaries a count of 0 everywhere
EmptyResult(op) ==
    IF op = "get_data_summary"
    THEN [owners |-> 0, teams |-> 0, matchups |-> 0, season_records |-> 0, rosters |-> 0,
          head_to_head |-> 0]
    ELSE IF op = "generate_summary_stats"
    THEN [total_owners |-> 0, seasons_played |-> 0, total_matchups |-> 0, total_games |-> 0,
          highest_score_ever |-> 0, lowest_score_ever |-> 0, average_score |-> 0,
          championships |-> <<>>, most_championships |-> NoChampion]
    ELSE <<>>

\* C18: with no CSV file in the data directory every load operation returns an
\* empty list, get_data_summary reports 0 for every file, and every analytics
\* operation (head-to-head records, win percentages, points leaders,
\* championship history, playoff performance, rivalry analysis, summary
\* statistics) returns an empty or zero result without raising.
C18_EmptyDirectoryIsEmptyEverywhere ==
    EmptyDataDirectory /\ ret # NoReturn =>
        /\ ~ret.raised
        /\ ret.records = EmptyResult(ret.op)

\* The summary statistics of an empty data directory have been computed
C18_Witness ==
    /\ EmptyDataDirectory
    /\ ret # NoReturn
    /\ ret.op = "generate_summary_stats"

\* --------------------------------------------- extract_all_league_data

\* range(1, 18) of extract_all_league_data and playoff_weeks of
\* _extract_playoff_matchups
RegularSeasonWeeks == [i \in 1..17 |-> i]
PlayoffWeeks == <<15, 16, 17>>

\* The calls of _extract_weekly_matchups one season makes, in order: the
\* regular-season pass, then the playoff pass
SeasonLoads(season) ==
    [i \in 1..Len(RegularSeasonWeeks) |->
        [season |-> season, week |-> RegularSeasonWeeks[i], pass |-> "regular"]]
      \o [i \in 1..Len(PlayoffWeeks) |->
            [season |-> season, week |-> PlayoffWeeks[i], pass |-> "playoff"]]

\* Those of all seasons
RECURSIVE AllLoads(_)
AllLoads(seasons) ==
    IF seasons = <<>> THEN <<>> ELSE SeasonLoads(Head(seasons)) \o AllLoads(Tail(seasons))

\* A playoff pass that leaves the flag of each matchup as the parser set it
KeepPlayoffFlag(weekly_matchups) == weekly_matchups

\* `for matchup in weekly_matchups: matchup.playoff = True`
ForcePlayoff(weekly_matchups) ==
    [i \in 1..Len(weekly_matchups) |-> [weekly_matchups[i] EXCEPT !.playoff = TRUE]]

\* The matchup elements the schedule page of a week shows, by the site scraped
WeekElems(web, week) == IF week \in DOMAIN web THEN web[week] ELSE <<>>

\* extract_all_league_data(seasons) up to its first page load.  The standings
\* pages of this site list no team, so _build_owner_mapping and
\* _process_season_standings add nothing to owners and season_records.
BeginExtraction(seasons) ==
    /\ extraction.at = 0
    /\ extraction' = [extraction EXCEPT !.seasons = seasons, !.at = 1]
    /\ league_data' = EmptyLeagueData
    /\ UNCHANGED <<files, lastSaved, ret>>

\* The next call of _extract_weekly_matchups and the extend that follows it;
\* `ok` is whether load_page returned the page or None (a page without matchup
\* elements gives the same empty list either way, and counts as returned)
ExtractNextWeek(ok) ==
    /\ ~extraction.done
    /\ extraction.at \in 1..Len(AllLoads(extraction.seasons))
    /\ LET load == AllLoads(extraction.seasons)[extraction.at]
           page == [ok |-> ok, elems |-> WeekElems(extraction.web, load.week)]
           matchups == ExtractWeeklyMatchups(load.season, load.week, page)
       IN  /\ ok \/ page.elems # <<>>
           /\ league_data' = [league_data EXCEPT
                                !.matchups = @ \o (IF load.pass = "playoff"
                                                   THEN ForcePlayoff(matchups)
                                                   ELSE matchups)]
           /\ extraction' = [extraction EXCEPT
                               !.at = @ + 1,
                               !.loaded = IF ok THEN @ \cup {load} ELSE @]
    /\ UNCHANGED <<files, lastSaved, ret>>

\* The return of league_data after the last season
ReturnLeagueData ==
    /\ ~extraction.done
    /\ extraction.at = Len(AllLoads(extraction.seasons)) + 1
    /\ extraction' = [extraction EXCEPT !.done = TRUE]
    /\ UNCHANGED storageVars

\* -------------------------- specification: one run of extract_all_league_data

\* The weeks whose schedule page shows matchups, and what a page can show: no
\* element, one, an element without scores before one, and two
LiveWeeks == {14, 15, 17}

PagePool ==
    {<<>>,
     <<[teams |-> <<T_Al, T_XBo>>, scores |-> <<<<"1", "0", ".", "5">>, <<"9">>>>]>>,
     <<[teams |-> <<T_Al>>, scores |-> <<<<"4">>>>],
       [teams |-> <<T_Al, T_XBo>>, scores |-> <<<<"3">>, <<"9">>>>]>>,
     <<[teams |-> <<T_Al, T_XBo>>, scores |-> <<<<"1", "0", ".", "5">>, <<"9">>>>],
       [teams |-> <<T_XBo, T_Al>>, scores |-> <<<<"7">>, <<"7", " ", "p", "t", "s">>>>]>>}

InitExtraction ==
    /\ StorageInit /\ ScraperIdle /\ PipelineIdle
    /\ call = NoCall /\ h2h_analysis = NoAnalysis /\ ScriptsIdleButExtraction
    /\ \E web \in [LiveWeeks -> PagePool] : extraction = [NoExtraction EXCEPT !.web = web]

NextExtraction ==
    /\ \/ \E seasons \in {<<PoolSeason>>, <<PoolSeason, PoolSeason + 1>>} :
             BeginExtraction(seasons)
       \/ \E ok \in BOOLEAN : ExtractNextWeek(ok)
       \/ ReturnLeagueData
    /\ UNCHANGED <<scraperVars, pipelineVars, call, h2h_analysis, fs, site, proc, table>>

SpecExtraction == InitExtraction /\ [][NextExtraction]_vars

\* The entries of the returned list that carry one matchup_id, and those of
\* them with a given playoff flag
Copies(matchup_id) ==
    SelectSeq(league_data.matchups, LAMBDA m : m.matchup_id = matchup_id)

CopiesFlagged(matchup_id, playoff) ==
    SelectSeq(Copies(matchup_id), LAMBDA m : m.playoff = playoff)

\* The matchups the schedule page of a week parses to
PageMatchups(season, week) ==
    ExtractWeeklyMatchups(season, week,
                          [ok |-> TRUE, elems |-> WeekElems(extraction.web, week)])

\* The load of the week's page in one pass gave the page
Loaded(season, week, pass) ==
    [season |-> season, week |-> week, pass |-> pass] \in extraction.loaded

\* C24 for the passes whose load gave the page: in the list returned, each
\* matchup of a week's schedule page appears once without the playoff flag when
\* the regular-season pass loaded the page (weeks 1 to 17), and once more with
\* playoff forced to true and the same matchup_id when the playoff pass loaded
\* it (weeks 15 to 17): twice when both loads gave the page, once for weeks 1 to
\* 14, and the list holds nothing else.
C24_OneCopyPerLoadedPass ==
    extraction.done =>
        /\ \A i \in 1..Len(extraction.seasons), week \in 1..17 :
              LET season == extraction.seasons[i]
                  scraped == PageMatchups(season, week)
              IN  \A k \in 1..Len(scraped) :
                     /\ CopiesFlagged(scraped[k].matchup_id, FALSE) =
                            (IF Loaded(season, week, "regular")
                             THEN <<scraped[k]>> ELSE <<>>)
                     /\ CopiesFlagged(scraped[k].matchup_id, TRUE) =
                            (IF week \in SetOfSeq(PlayoffWeeks)
                                  /\ Loaded(season, week, "playoff")
                             THEN <<[scraped[k] EXCEPT !.playoff = TRUE]>> ELSE <<>>)
        /\ \A j \in 1..Len(league_data.matchups) :
              LET m == league_data.matchups[j]
              IN  /\ m.season \in SetOfSeq(extraction.seasons)
                  /\ m \in SetOfSeq(ForcePlayoff(PageMatchups(m.season, m.week)))
                           \cup SetOfSeq(PageMatchups(m.season, m.week))

\* A run over two seasons has returned a week-15 matchup twice and a week-17
\* matchup once, the playoff load of week 17 having given no page
C24_Witness ==
    /\ extraction.done
    /\ Len(extraction.seasons) = 2
    /\ \E m \in SetOfSeq(league_data.matchups) :
          m.week = 15 /\ Len(Copies(m.matchup_id)) = 2
    /\ \E m \in SetOfSeq(league_data.matchups) :
          m.week = 17 /\ Len(Copies(m.matchup_id)) = 1

\* C24: for each season passed to extract_all_league_data, every matchup
\* scraped for weeks 15 to 17 appears exactly twice in the returned list, once
\* from the regular-season pass and once from the playoff pass with playoff
\* forced to true, both with the same matchup_id, while every matchup of weeks
\* 1 to 14 appears exactly once with playoff false.
C24_PlayoffWeeksAppearTwice ==
    extraction.done =>
        \A j \in 1..Len(league_data.matchups) :
            LET m == league_data.matchups[j]
            IN  IF m.week \in SetOfSeq(PlayoffWeeks)
                THEN /\ Len(CopiesFlagged(m.matchup_id, FALSE)) = 1
                     /\ Len(CopiesFlagged(m.matchup_id, TRUE)) = 1
                ELSE Copies(m.matchup_id) = <<m>> /\ ~m.playoff

\* ------------------------------------ head-to-head records against the file

\* The matchups calculate_head_to_head_records loads, and those with a winner
LoadedMatchups == LoadMatchups(files.matchups)

DecidedMatchups == SelectSeq(LoadedMatchups, LAMBDA m : ~Falsy(m.winner_owner_id))

\* The decided matchups between two owners, whichever was team 1
DecidedBetween(a, b) ==
    SelectSeq(DecidedMatchups,
              LAMBDA m : {m.team1_owner_id, m.team2_owner_id} = {a, b})

\* An owner's summed scores over some matchups
PointsIn(matchups, owner) ==
    SumSeq([i \in 1..Len(matchups) |->
               IF matchups[i].team1_owner_id = owner THEN matchups[i].team1_score
               ELSE matchups[i].team2_score])

\* C25: calculate_head_to_head_records skips every matchup without a winner and
\* returns exactly one record per unordered pair of owners that met in at least
\* one decided matchup; its total_games is the number of decided matchups
\* between the two, whichever was team 1, its owner1_wins and owner2_wins the
\* numbers of those matchups each won, and its owner1_points and owner2_points
\* each owner's summed scores in them.
C25_OneRecordPerPairThatMet ==
    ret.op = "calculate_head_to_head_records" =>
        /\ ~ret.raised
        /\ \A i \in 1..Len(DecidedMatchups) :
              Cardinality({k \in 1..Len(ret.records) :
                              {ret.records[k].owner1_id, ret.records[k].owner2_id}
                                = {DecidedMatchups[i].team1_owner_id,
                                   DecidedMatchups[i].team2_owner_id}}) = 1
        /\ \A k \in 1..Len(ret.records) :
              LET record == ret.records[k]
                  met == DecidedBetween(record.owner1_id, record.owner2_id)
              IN  /\ met # <<>>
                  /\ record.total_games = Len(met)
                  /\ record.owner1_wins =
                         Len(SelectSeq(met, LAMBDA m : m.winner_owner_id = record.owner1_id))
                  /\ record.owner2_wins =
                         Len(SelectSeq(met, LAMBDA m : m.winner_owner_id = record.owner2_id))
                  /\ record.owner1_points = PointsIn(met, record.owner1_id)
                  /\ record.owner2_points = PointsIn(met, record.owner2_id)

\* ================================================= psychology insights script

\* The loop of calculate_streaks from index i (0-based) on, with the streaks
\* appended so far and the running current_streak; it returns both.
\* `current_streak += 1 if current_streak > 0 else 1` adds 1 either way, and the
\* loss branch subtracts 1 either way.
RECURSIVE StreakLoop(_, _, _, _)
StreakLoop(results, i, streaks, current_streak) ==
    IF i >= Len(results) THEN [streaks |-> streaks, current_streak |-> current_streak]
    ELSE IF results[i + 1] = results[i]
         THEN StreakLoop(results, i + 1, streaks,
                         IF results[i + 1] THEN current_streak + 1 ELSE current_streak - 1)
         ELSE StreakLoop(results, i + 1, Append(streaks, current_streak),
                         IF results[i + 1] THEN 1 ELSE -1)

\* A calculate_streaks without the append after the loop
CalculateStreaksOpenRunLost(results) ==
    IF results = <<>> THEN <<0>>
    ELSE StreakLoop(results, 1, <<>>, IF results[1] THEN 1 ELSE -1).streaks

\* calculate_streaks(results)
CalculateStreaks(results) ==
    IF results = <<>> THEN <<0>>
    ELSE LET looped == StreakLoop(results, 1, <<>>, IF results[1] THEN 1 ELSE -1)
         IN  Append(looped.streaks, looped.current_streak)

\* max([s for s in streaks if s > 0] + [0]) and abs(min([s for s in streaks if s < 0] + [0]))
MaxWinStreak(streaks) == Largest({s \in SetOfSeq(streaks) : s > 0} \cup {0})

MaxLoseStreak(streaks) == 0 - Smallest({s \in SetOfSeq(streaks) : s < 0} \cup {0})

\* The momentum lines of analyze_performance_psychology on a manager's results
CalculateStreaksCall ==
    /\ call.op = "calculate_streaks" /\ ~call.done
    /\ LET streaks == CalculateStreaks(call.arg)
       IN  call' = [call EXCEPT !.done = TRUE,
                                !.value = [streaks |-> streaks,
                                           max_win_streak |-> MaxWinStreak(streaks),
                                           max_lose_streak |-> MaxLoseStreak(streaks)]]
    /\ UNCHANGED <<h2h_analysis, fs, site, proc, table, extraction>>

\* The most games of a manager
MaxResults == 6

InitStreaks ==
    /\ StorageInit /\ ScraperIdle /\ PipelineIdle
    /\ h2h_analysis = NoAnalysis /\ ScriptsIdle
    /\ \E results \in ListsUpTo(BOOLEAN, MaxResults) :
          call = [NoCall EXCEPT !.op = "calculate_streaks", !.arg = results]

NextStreaks ==
    /\ CalculateStreaksCall
    /\ UNCHANGED <<storageVars, scraperVars, pipelineVars>>

SpecStreaks == InitStreaks /\ [][NextStreaks]_vars

Abs(n) == IF n < 0 THEN 0 - n ELSE n

\* The longest run of consecutive entries equal to `won`
LongestRun(results, won) ==
    Largest({0} \cup {k \in 1..Len(results) :
                         \E i \in 1..(Len(results) - k + 1) :
                             \A j \in i..(i + k - 1) : results[j] = won})

\* C26: for any sequence of win/loss results calculate_streaks returns the
\* signed lengths of its maximal runs in order, positive for wins and negative
\* for losses: each entry covers the games that follow those of the entries
\* before it, all of them wins or all of them losses, adjacent entries alternate
\* in sign, and the absolute values sum to the number of games; max_win_streak
\* and max_lose_streak are the longest runs of consecutive wins and losses.
C26_StreaksAreTheMaximalRuns ==
    (call.op = "calculate_streaks" /\ call.done) =>
        LET results == call.arg
            streaks == call.value.streaks
            Before(i) == SumSeq([k \in 1..(i - 1) |-> Abs(streaks[k])])
        IN  /\ SumSeq([k \in 1..Len(streaks) |-> Abs(streaks[k])]) = Len(results)
            /\ results # <<>> =>
                  \A i \in 1..Len(streaks) :
                      /\ streaks[i] # 0
                      /\ \A j \in (Before(i) + 1)..(Before(i) + Abs(streaks[i])) :
                             results[j] = (streaks[i] > 0)
            /\ \A i \in 1..(Len(streaks) - 1) : (streaks[i] > 0) # (streaks[i + 1] > 0)
            /\ call.value.max_win_streak = LongestRun(results, TRUE)
            /\ call.value.max_lose_streak = LongestRun(results, FALSE)

\* Results with a run of wins between runs of losses, each of two games or more
C26_Witness ==
    /\ call.op = "calculate_streaks" /\ call.done
    /\ Len(call.value.streaks) >= 3
    /\ call.value.max_win_streak >= 2
    /\ call.value.max_lose_streak >= 2

\* ---------------------------------------------------------------- manager DNA

\* A DNA value: nan, the fraction num / den (den > 0), or, with `root`, the
\* square root of that fraction
Fraction(num, den) == [nan |-> FALSE, root |-> FALSE, num |-> num, den |-> den]
RootOf(num, den) == [nan |-> FALSE, root |-> TRUE, num |-> num, den |-> den]
NotANumber == [nan |-> TRUE, root |-> FALSE, num |-> 0, den |-> 1]

\* value <= limit, for a limit that is a natural number
AtMost(value, limit) ==
    /\ ~value.nan
    /\ IF value.root THEN value.num <= limit * limit * value.den
       ELSE value.num <= limit * value.den

\* 0 <= value
AtLeastZero(value) == ~value.nan /\ (value.root \/ value.num >= 0)

\* min(value, 10) of Python: 10 when 10 < value, else value (nan stays nan)
MinWithTen(value) == IF ~value.nan /\ ~AtMost(value, 10) THEN Fraction(10, 1) ELSE value

\* max(0, value) of Python on a number
MaxWithZero(value) == IF AtLeastZero(value) THEN value ELSE Fraction(0, 1)

\* The manager's score and the opponent's in each of the manager's games
ManagerGames(matchups_df, manager) ==
    SelectSeq(matchups_df, LAMBDA row : row.manager1 = manager \/ row.manager2 = manager)

OwnScores(games, manager) ==
    [i \in 1..Len(games) |->
        IF games[i].manager1 = manager THEN games[i].team1_score ELSE games[i].team2_score]

OpponentScores(games, manager) ==
    [i \in 1..Len(games) |->
        IF games[i].manager1 = manager THEN games[i].team2_score ELSE games[i].team1_score]

\* n * sum(x^2) - sum(x)^2: n^2 times the variance np.std squares
SpreadOf(scores) ==
    Len(scores) * SumSeq([i \in 1..Len(scores) |-> scores[i] * scores[i]])
      - SumSeq(scores) * SumSeq(scores)

\* high_scorer: min((avg_score / league_avg - 1) * 10 + 5, 10) if league_avg > 0
\* else 5.  np.mean of no score is nan; league_avg is the mean of both score
\* columns of the frame, nan for a frame without rows, and nan > 0 is false.
HighScorer(scores, matchups_df) ==
    LET n == Len(scores)
        m == Len(matchups_df)
        league_total == SumSeq(Column(matchups_df, "team1_score"))
                          + SumSeq(Column(matchups_df, "team2_score"))
    IN  IF m > 0 /\ league_total > 0
        THEN (IF n = 0 THEN NotANumber
              ELSE MinWithTen(Fraction(20 * SumSeq(scores) * m - 5 * n * league_total,
                                       n * league_total)))
        ELSE Fraction(5, 1)

\* consistent: min((1 / (score_std / avg_score)) * 2, 10) if avg_score > 0 and
\* score_std > 0 else 5
Consistent(scores) ==
    IF scores # <<>> /\ SumSeq(scores) > 0 /\ SpreadOf(scores) > 0
    THEN MinWithTen(RootOf(4 * SumSeq(scores) * SumSeq(scores), SpreadOf(scores)))
    ELSE Fraction(5, 1)

\* luck_factor, clamped to 0..10
Lucky(games, manager) ==
    LET scores == OwnScores(games, manager)
        opponent_scores == OpponentScores(games, manager)
        n == Len(scores)
        expected_wins == Cardinality({i \in 1..n : scores[i] > opponent_scores[i]})
        actual_wins == Cardinality({i \in 1..n : games[i].winning_manager = manager})
    IN  IF n > 0
        THEN MaxWithZero(MinWithTen(Fraction(20 * (actual_wins - expected_wins) + 5 * n, n)))
        ELSE Fraction(5, 1)

\* clutch, with its max(0, clutch)
Clutch(games, manager) ==
    LET playoff_scores == OwnScores(SelectSeq(games, LAMBDA row : row.playoff), manager)
        regular_scores == OwnScores(SelectSeq(games, LAMBDA row : ~row.playoff), manager)
        p == Len(playoff_scores)
        r == Len(regular_scores)
    IN  IF p > 0 /\ r > 0 /\ SumSeq(regular_scores) > 0
        THEN MaxWithZero(MinWithTen(
                 Fraction(20 * SumSeq(playoff_scores) * r - 15 * p * SumSeq(regular_scores),
                          p * SumSeq(regular_scores))))
        ELSE Fraction(5, 1)

\* volatile: min((score_std / avg_score) * 15, 10) if avg_score > 0 else 5
Volatile(scores) ==
    IF scores # <<>> /\ SumSeq(scores) > 0
    THEN MinWithTen(RootOf(225 * SpreadOf(scores), SumSeq(scores) * SumSeq(scores)))
    ELSE Fraction(5, 1)

\* defensive: league_opp_avg is avg_opp_score itself, so the value is 5 whether
\* the average is positive, zero or nan
Defensive(opponent_scores) == Fraction(5, 1)

\* analyze_manager_dna: the six values of one manager
ManagerDna(matchups_df, manager) ==
    LET games == ManagerGames(matchups_df, manager)
        scores == OwnScores(games, manager)
    IN  [manager |-> manager,
         high_scorer |-> HighScorer(scores, matchups_df),
         consistent |-> Consistent(scores),
         lucky |-> Lucky(games, manager),
         clutch |-> Clutch(games, manager),
         volatile |-> Volatile(scores),
         defensive |-> Defensive(OpponentScores(games, manager)),
         games_played |-> Len(scores)]

\* analyze_manager_dna(current_matchups, active_managers): one row per active
\* manager (a set here, the rows being independent of each other)
AnalyzeManagerDna ==
    /\ call.op = "analyze_manager_dna" /\ ~call.done
    /\ call' = [call EXCEPT !.done = TRUE,
                            !.value = {ManagerDna(CurrentMatchups(call.arg), manager) :
                                          manager \in ActiveManagers}]
    /\ UNCHANGED <<h2h_analysis, fs, site, proc, table, extraction>>

\* The most rows of the final dataset the DNA analysis is given
MaxDnaGames == 3

\* Rows of the final dataset, scores in tenths: a heavy defeat, a win, a drawn
\* playoff game, a game without points, a playoff win, and a game of a manager
\* who is not active
DnaRowPool ==
    { [manager1 |-> w[1], manager2 |-> w[2], team1_score |-> w[3], team2_score |-> w[4],
       winning_manager |-> w[5], playoff |-> w[6]] :
        w \in {<<Billy, Phoenix, 100, 1000, Phoenix, FALSE>>,
               <<Billy, Phoenix, 1200, 1000, Billy, FALSE>>,
               <<Phoenix, Billy, 900, 900, Missing, TRUE>>,
               <<Billy, Phoenix, 0, 0, Missing, FALSE>>,
               <<Phoenix, Billy, 1500, 1100, Phoenix, TRUE>>,
               <<Daniel, Billy, 1000, 1100, Billy, FALSE>>} }

InitDna ==
    /\ StorageInit /\ ScraperIdle /\ PipelineIdle
    /\ h2h_analysis = NoAnalysis /\ ScriptsIdle
    /\ \E matchups_df \in ListsUpTo(DnaRowPool, MaxDnaGames) :
          call = [NoCall EXCEPT !.op = "analyze_manager_dna", !.arg = matchups_df]

NextDna ==
    /\ AnalyzeManagerDna
    /\ UNCHANGED <<storageVars, scraperVars, pipelineVars>>

SpecDna == InitDna /\ [][NextDna]_vars

\* The value is a number from 0 to 10
InRadarRange(value) == AtLeastZero(value) /\ AtMost(value, 10)

\* C27: for every manager and every matchup history each of the six Manager
\* DNA values (high_scorer, consistent, lucky, clutch, volatile, defensive)
\* computed by analyze_manager_dna lies in the range 0 to 10 of the radar chart.
C27_DnaValuesWithinRadarRange ==
    (call.op = "analyze_manager_dna" /\ call.done) =>
        \A dna \in call.value :
            /\ InRadarRange(dna.high_scorer)
            /\ InRadarRange(dna.consistent)
            /\ InRadarRange(dna.lucky)
            /\ InRadarRange(dna.clutch)
            /\ InRadarRange(dna.volatile)
            /\ InRadarRange(dna.defensive)

\* ------------------------------------------- the H2H script's tallies agree

\* The most rows of a rivalry handed to the H2H analysis
MaxMeetings == 7

\* A row of a final dataset
RivalryRow(w) ==
    [season |-> 2023, week |-> w[1], team1 |-> Tm_Ab, team2 |-> Tm_Nu,
     winner |-> Tm_Ab, team1_score |-> w[5], team2_score |-> w[6], playoff |-> FALSE,
     manager1 |-> w[2], manager2 |-> w[3], winning_manager |-> w[4]]

\* The games of one pair: a win of either side and a tie
RivalryRowPool ==
    { RivalryRow(w) : w \in {<<1, Billy, Phoenix, Billy, 1500, 1000>>,
                             <<2, Billy, Phoenix, Phoenix, 1800, 1900>>,
                             <<3, Phoenix, Billy, Missing, 1000, 1000>>} }

\* A game of one of the pair against a third manager
ThirdManagerRow ==
    RivalryRow(<<4, <<"N", "e", "l", "s", "o", "n">>, Billy,
                    <<"N", "e", "l", "s", "o", "n">>, 1300, 1100>>)

\* The games of the pair, with the third manager's game before them, after them
\* or not at all
InitRivalries ==
    /\ StorageInit /\ ScraperIdle /\ ToolsIdle
    /\ raw_matchups = <<>>
    /\ owners_data = <<>>
    /\ \E rows \in ListsUpTo(RivalryRowPool, MaxMeetings) :
       \E third \in {"none", "first", "last"} :
          final = [exists |-> TRUE, raised |-> FALSE, mapping |-> <<>>,
                   matchups_final |-> CASE third = "none" -> rows
                                        [] third = "first" -> <<ThirdManagerRow>> \o rows
                                        [] third = "last" -> rows \o <<ThirdManagerRow>>]
    /\ prev_final = NoFinal
    /\ insights = NoInsights

NextRivalries ==
    /\ CreateH2HAnalysis /\ ~h2h_analysis.done
    /\ UNCHANGED <<storageVars, scraperVars, pipelineVars>>

SpecRivalries == InitRivalries /\ [][NextRivalries]_vars

\* h2h_records[a][b], all zero when the two never met
Tally(a, b) ==
    IF HasKey(h2h_analysis.h2h_records, <<a, b>>)
    THEN StatsOf(h2h_analysis.h2h_records, <<a, b>>)
    ELSE DefaultStats(<<a, b>>)

RECURSIVE SumOver(_, _)
SumOver(managers, field) ==
    IF managers = {} THEN 0
    ELSE LET manager == CHOOSE m \in managers : TRUE
         IN  h2h_analysis.overall_records[manager][field]
               + SumOver(managers \ {manager}, field)

\* C28: after the H2H analysis script has processed the qualifying matchups,
\* for every two distinct managers A and B the wins of A versus B are the
\* losses of B versus A, the games are equal in both directions and the
\* points_for of A versus B are the points_against of B versus A; the wins
\* summed over the overall standings equal the losses summed over them, and the
\* difference of every close rivalry is the difference of the two managers'
\* actual win counts.
C28_TalliesMirrorEachOther ==
    h2h_analysis.done =>
        /\ \A a \in ActiveManagers : \A b \in ActiveManagers \ {a} :
              /\ Tally(a, b).wins = Tally(b, a).losses
              /\ Tally(a, b).games = Tally(b, a).games
              /\ Tally(a, b).points_for = Tally(b, a).points_against
        /\ SumOver(ActiveManagers, "wins") = SumOver(ActiveManagers, "losses")
        /\ \A i \in 1..Len(h2h_analysis.close_rivalries) :
              LET rivalry == h2h_analysis.close_rivalries[i]
              IN  rivalry.diff = Abs(rivalry.wins1 - rivalry.wins2)

\* C28's case: a close rivalry with a tie among its games and unequal wins,
\* beside a game of a third manager
C28_Witness ==
    /\ h2h_analysis.done
    /\ \E i \in 1..Len(h2h_analysis.close_rivalries) :
          LET rivalry == h2h_analysis.close_rivalries[i]
          IN  /\ rivalry.wins1 # rivalry.wins2
              /\ rivalry.wins1 + rivalry.wins2 < rivalry.games
    /\ SumOver(ActiveManagers, "wins") > 0

\* --------------------------------------- team names that change hands by year

\* The most owners rows the builder is given here
MaxOwnerRows == 3

\* Rows of the owners CSV: one team name under one manager in 2023 and under
\* another in 2024, and a second team that goes to waivers
SeasonOwnerRowPool ==
    { [year |-> 2023, team_name |-> Tm_Ab, manager_name |-> Billy],
      [year |-> 2024, team_name |-> Tm_Ab, manager_name |-> Phoenix],
      [year |-> 2023, team_name |-> Tm_Nu, manager_name |-> Daniel],
      [year |-> 2024, team_name |-> Tm_Nu, manager_name |-> Waiver] }

\* Rows of the raw matchup CSV: the two teams meeting in either season
SeasonMatchupRowPool ==
    { [season |-> 2023, week |-> 1, team1 |-> Tm_Ab, team2 |-> Tm_Nu,
       team1_score |-> 1800, team2_score |-> 1900, winner |-> Tm_Nu, playoff |-> FALSE],
      [season |-> 2024, week |-> 1, team1 |-> Tm_Nu, team2 |-> Tm_Ab,
       team1_score |-> 1000, team2_score |-> 1200, winner |-> Tm_Ab, playoff |-> FALSE] }

InitSeasons ==
    /\ StorageInit /\ ScraperIdle /\ ToolsIdle
    /\ raw_matchups \in FramesUpTo(SeasonMatchupRowPool, MaxRows)
    /\ owners_data \in FramesUpTo(SeasonOwnerRowPool, MaxOwnerRows)
    /\ final = NoFinal
    /\ prev_final = NoFinal
    /\ insights = NoInsights

NextSeasons ==
    /\ \E order \in Orders(MatchupTeams(raw_matchups)) : CreateFinalDataset(order)
    /\ UNCHANGED <<storageVars, scraperVars, toolVars>>

SpecSeasons == InitSeasons /\ [][NextSeasons]_vars

\* The managers the owners data lists for the team name in the year, waivers
\* aside
ListedManagers(year, team_name) ==
    {owners_data[i].manager_name :
        i \in {j \in 1..Len(owners_data) :
                  /\ owners_data[j].year = year
                  /\ owners_data[j].team_name = team_name
                  /\ owners_data[j].manager_name # Waiver}}

\* C29: in the final dataset the manager attached to a matchup row of season s
\* and team name t is a manager that the owners data lists for team name t in
\* year s, whenever the owners data has a non-Waiver row for (s, t); a team name
\* used by different managers in different years is never resolved to the
\* manager of another year.
C29_ManagerIsThatOfTheSeason ==
    (final.exists /\ ~final.raised) =>
        \A i \in 1..Len(final.matchups_final) :
            LET row == final.matchups_final[i]
            IN  /\ ListedManagers(row.season, row.team1) # {}
                     => row.manager1 \in ListedManagers(row.season, row.team1)
                /\ ListedManagers(row.season, row.team2) # {}
                     => row.manager2 \in ListedManagers(row.season, row.team2)

\* ------------------------------------------- the kept scripts after a cleanup

\* The key scripts of keep_files
KeptScripts ==
    {"scripts/create_final_dataset_fixed.py", "scripts/create_h2h_analysis.py",
     "scripts/extract_owners_data.py"}

\* The files a kept script reads, each as its directory and name:
\* create_final_dataset_fixed reads the simplified matchups and the complete
\* owners file, create_h2h_analysis the final dataset, and extract_owners_data
\* no data file (it signs in with .env and reads the site)
ScriptInputs(kept) ==
    CASE kept = "scripts/create_final_dataset_fixed.py" ->
            {[dir |-> "data/full_seasons_2017_2024", name |-> "matchups_simplified.csv"],
             [dir |-> "data/actual_owners", name |-> "owners_2017_2024_complete.csv"]}
      [] kept = "scripts/create_h2h_analysis.py" ->
            {[dir |-> "data/final_dataset",
              name |-> "league_hard_knox_2017_2024_complete.csv"]}
      [] kept = "scripts/extract_owners_data.py" -> {}

\* Whether the file can be read in the tree: a directory of the tree that is
\* there holds its files, one removed holds none, and a path the tree does not
\* list is out of the utility's reach
Readable(tree, input) ==
    LET path == input.dir \o "/" \o input.name
    IN  /\ input.dir \in DOMAIN tree => tree[input.dir] # "absent"
        /\ path \in DOMAIN tree => tree[path] # "absent"

\* C30: the cleanup utility deletes no file or directory that one of the
\* scripts it keeps (create_final_dataset_fixed.py, create_h2h_analysis.py,
\* extract_owners_data.py) reads as input, so every kept script that could run
\* before the cleanup can still be re-run after it.
C30_CleanupKeepsInputsOfKeptScripts ==
    (proc.script = "cleanup_project" /\ proc.runs >= 1) =>
        \A kept \in KeptScripts : \A input \in ScriptInputs(kept) :
            Readable(proc.before, input) => Readable(fs, input)

====
